---- MODULE Spec2Model ----
(***************************************************************************)
(* A model of the airflowreceiver scrapers: the retry executor             *)
(* (internal/scraper/retry.go), the REST request closure that runs under   *)
(* it, the scraper health tracker, the StatsD aggregation table with its   *)
(* listener, the log adapter and the REST fan-out over DAGs and runs.      *)
(*                                                                         *)
(* Each component has its own specifications (SpecRetry, SpecHealth,       *)
(* SpecStatsD, SpecLog, SpecRest, ...); a component's specification leaves *)
(* the variables of the other components at their initial values.          *)
(***************************************************************************)
EXTENDS Integers, Sequences, FiniteSets, TLC

VARIABLES
    \* ---- RetryWithBackoff (one call) ----
    cfg,          \* the RetryConfig the call was given
    arch,         \* the architecture the program was built for
    rpc,          \* position in RetryWithBackoff: "loop", "select", "call", "done"
    attempt,      \* the loop variable (0-based)
    backoff,      \* the local backoff, in seconds (negative: see ToDuration)
    lastErr,      \* the local lastErr
    ret,          \* the value returned (meaningful when rpc = "done")
    ctxDone,      \* ctx.Done() is closed
    errorLog,     \* the fields of the final logger.Error entry, NoLog if none
    calls,        \* history: number of invocations of fn
    waits,        \* history: the time slept before each retry, in order
    observed,     \* history: what the latest invocation of fn returned
    cancelAt      \* history: value of calls when ctx was cancelled in a wait, else -1

retryVars == <<cfg, arch, rpc, attempt, backoff, lastErr, ret, ctxDone, errorLog,
               calls, waits, observed, cancelAt>>

VARIABLES
    \* ---- ScraperHealth (one tracker) ----
    health,       \* the fields of the ScraperHealth struct
    clock,        \* what time.Now() returns, a logical time; 0 is the zero Time
    mu,           \* the RWMutex h.mu: [writer |-> BOOLEAN, readers |-> Nat]
    wpc,          \* position of the goroutine in RecordScrape: "idle", "l291", "l294"
    wargs,        \* the arguments of the RecordScrape call in progress
    rdpc,         \* position of the reading goroutine: "idle", "read1", "read2", "done"
    rdkind,       \* the reader's method: "GetMetrics" or "EmitMetrics"
    snap,         \* what the reader has read so far / returned
    outcomes,     \* history: "ok"/"err" of each RecordScrape since construction or Reset
    durations,    \* history: the duration of each of them
    prior,        \* history: the fields before the latest RecordScrape or Reset
    between       \* history: the states the tracker had, between RecordScrape calls,
                  \*          while the reader held the read lock

healthVars == <<health, clock, mu, wpc, wargs, rdpc, rdkind, snap,
                outcomes, durations, prior, between>>

VARIABLES
    \* ---- StatsDScraper (the aggregation table) ----
    metrics,      \* s.metrics: key -> cell
    fed,          \* history: key -> the parsed lines aggregated into the cell, in order
    received,     \* history: number of lines received
    buf,          \* the datagram read last, as lines
    ranged,       \* history: for each of its lines, the order its tags were ranged over
    mb,           \* s.mb: the metrics appended to the builder, in order
    out,          \* what the latest Scrape returned, and the lines received by then
    prevOut,      \* history: the same for the Scrape before it
    scrapes,      \* history: number of Scrape calls
    conn,         \* s.conn: "nil", "open" or "closed"
    stopChan,     \* s.stopChan is closed
    wg,           \* the counter of s.wg
    lpc,          \* position of the goroutine running listen: "none" (not
                  \* started), "select", "read", "aggregate", "done" (returned)
    cursor,       \* index in buf of the line parseAndAggregate is at
    spc,          \* position in Shutdown: "idle", "l231", "l234", "returned"
    calledAt      \* history: the listener's position when Shutdown was called

statsdVars == <<metrics, fed, received, buf, ranged, mb, out, prevOut, scrapes,
                conn, stopChan, wg, lpc, cursor, spc, calledAt>>

VARIABLES
    \* ---- LogScraper under logsReceiver.scrapeLogs ----
    logTable,          \* the rows of the table log: id -> "Scan accepts the row"
    lastScrapedLogID,  \* s.lastScrapedLogID
    lb,                \* s.lb: the ids of the rows recorded by the latest Scrape
    cycle,             \* history: the latest scrape cycle
    prevCycle,         \* history: the cycle before it
    scanned,           \* history: ids of the rows scanned and recorded so far
    handed,            \* history: ids of the rows passed to consumer.ConsumeLogs
    emitted,           \* history: id -> number of batches passed to ConsumeLogs
                       \* that held the row (2 standing for two or more)
    clean              \* history: every cycle so far ended without an error
                       \* and scanned every row it read

logVars == <<logTable, lastScrapedLogID, lb, cycle, prevCycle, scanned, handed,
             emitted, clean>>

VARIABLES
    \* ---- RESTAPIScraper.scrapeDAGMetrics (one cycle) ----
    restMb,       \* s.mb: the metrics appended to the builder, in order
    restpc,       \* "idle" before the cycle, "done" after it
    served,       \* history: what the server answered in the cycle
    listed        \* history: the task listings requested, as <<dag id, run id>>

restVars == <<restMb, restpc, served, listed>>

VARIABLES
    \* ---- logsReceiver: Start, poll, Shutdown ----
    rstate,       \* the receiver: "new", "started" or "failed" (Start returned an error)
    startErr,     \* history: what the receiver's Start returned
    db,           \* s.db of the LogScraper: "nil", "open" or "closed"
    cancelled,    \* the context handed to poll is cancelled
    rshutdown,    \* Shutdown of the receiver has been called
    pollpc,       \* the goroutine running poll: "none" (not launched), "select",
                  \* "call" (inside r.scrapeLogs) or "done" (returned)
    tick,         \* number of ticks buffered in ticker.C, whose capacity is 1
    fired,        \* history: ticks the ticker has fired
    dropped,      \* history: ticks fired while ticker.C was full
    running,      \* history: executions of LogScraper.Scrape in progress
    invocations   \* history: number of LogScraper.Scrape calls

pollVars == <<rstate, startErr, db, cancelled, rshutdown, pollpc, tick, fired,
              dropped, running, invocations>>

VARIABLES
    \* ---- RESTAPIScraper.Scrape, cycle after cycle ----
    sHealth,      \* s.health, the scraper's own health tracker
    sMb,          \* s.mb: the points appended to the builder, each with the
                  \* cycle that recorded it
    sBatch,       \* what the latest Scrape returned
    scrapeErr,    \* the error the latest Scrape returned
    answers       \* history: how the server answered each cycle

cycleVars == <<sHealth, sMb, sBatch, scrapeErr, answers>>

VARIABLES
    \* ---- the metrics receiver built by createMetricsReceiver ----
    recv,         \* the receiver: "created", "running" or "stopped"
    sent          \* history: the lines sent to the StatsD endpoint while the
                  \* receiver ran, each with the number of Scrapes before it

recvVars == <<recv, sent>>

VARIABLES
    \* ---- s.mu of the StatsDScraper ----
    smu,          \* s.mu: held by a writer, and the number of readers holding it
    scpc,         \* position of the caller of Scrape: "idle" or "ranging"
    seen          \* history: the table when the running Scrape took the lock

lockVars == <<smu, scpc, seen>>

VARIABLES
    \* ---- DatabaseScraperWrapper ----
    wOnce,        \* w.once has run its function
    wStarted,     \* w.started
    wHealth,      \* w.health
    wMb,          \* w.scraper.mb: the points appended, each with its Scrape
    wBatch,       \* what the latest Scrape of the wrapper returned
    wErr,         \* the error the latest Scrape of the wrapper returned
    wStartErr,    \* history: what DatabaseScraper.Start returned
    wScrapes,     \* history: number of Scrape calls on the wrapper
    startCalls,   \* history: number of DatabaseScraper.Start calls
    scrapeCalls   \* history: number of DatabaseScraper.Scrape calls

wrapVars == <<wOnce, wStarted, wHealth, wMb, wBatch, wErr, wStartErr, wScrapes,
              startCalls, scrapeCalls>>

vars == <<retryVars, healthVars, statsdVars, logVars, restVars, pollVars, cycleVars, recvVars, lockVars, wrapVars>>

-----------------------------------------------------------------------------
(***************************************************************************)
(* Bounds of the model.                                                    *)
(***************************************************************************)
\* Largest MaxAttempts among the retry policies explored.
MaxN == 36

\* Number of calls (RecordScrape, Reset) made on a health tracker.
MaxOps == 5

\* Number of RecordScrape calls made while another goroutine reads the tracker.
MaxLockedScrapes == 3

\* Number of lines the StatsD listener receives, and of lines in one datagram.
MaxLines == 3
MaxDatagramLines == 2

\* Number of Scrape calls on the StatsD scraper, and of lines received
\* between and around them.
MaxScrapes == 2
MaxScrapedLines == 2

\* Number of rows the table log may come to hold.
MaxLogRows == 4

\* Number of datagrams sent to the endpoint of the metrics receiver.
MaxSent == 2

\* Number of Scrape calls on the database scraper's wrapper.
MaxWrapperScrapes == 3

\* Number of scrape cycles of the REST scraper.
MaxCycles == 4

\* Number of ticks the ticker of logsReceiver.poll fires, and of rows
\* appended to the table while the receiver is observed.
MaxTicks == 3
MaxPollRows == 1

\* The LIMIT of the query of LogScraper.Scrape (1000 in the source), scaled
\* down so that a backlog can exceed one page.
PageLimit == 3

\* Number of runs the server lists in one REST cycle, over all DAGs.
MaxRuns == 2

-----------------------------------------------------------------------------
(***************************************************************************)
(* Retry executor: internal/scraper/retry.go.                              *)
(* Durations are counted in whole seconds; the policies explored have      *)
(* integral multipliers, for which the float64 product of line 37 is exact *)
(* wherever its value matters.                                             *)
(***************************************************************************)

\* Error values.  An error is a record; Nil is Go's nil error.
Nil == [kind |-> "nil", code |-> 0]
CtxErr == [kind |-> "context canceled", code |-> 0]
TransportErr == [kind |-> "transport", code |-> 0]
AuthErr(status) == [kind |-> "authentication failed", code |-> status]
StatusErr(status) == [kind |-> "unexpected status code", code |-> status]

\* HTTP status codes the server may answer with.
StatusCodes == {200, 401, 403, 500}

\* What one run of the closure doRequest hands to RetryWithBackoff returns:
\* client.Do fails (a transport error), or the response has the given status.
DoRequestFn(status) ==
    IF status = 200 THEN Nil
    ELSE IF status = 401 \/ status = 403 THEN AuthErr(status)
    ELSE StatusErr(status)

FnResults == {DoRequestFn(s) : s \in StatusCodes} \cup {TransportErr}

DefaultRetryConfig ==
    [MaxAttempts |-> 3, InitialInterval |-> 1, MaxInterval |-> 10, Multiplier |-> 2]

\* The policies a call may be given.
Policies ==
    { [MaxAttempts |-> n, InitialInterval |-> i, MaxInterval |-> mx, Multiplier |-> m] :
        n \in 0..MaxN, i \in {1, 3}, mx \in {2, 10}, m \in {1, 2, 3} }
    \cup {DefaultRetryConfig}

\* The operation name passed by doRequest.
Operation == "GET /api/v1/dags"

\* No "Operation failed after all retries" entry has been logged.
NoLog == [operation |-> "", attempts |-> 0 - 1, err |-> Nil]

\* A float64 value v >= 0 with no fractional part is held as <<hi, lo>> with
\* v = hi * LimbBase + lo, so that values beyond the range of the model
\* checker's integers can be compared with math.MaxInt64.
LimbBase == 2^16

\* math.MaxInt64 nanoseconds in whole seconds: 9223372036 = 140737 * 2^16 + 32004.
MaxInt64Sec == <<140737, 32004>>

\* v > math.MaxInt64 ns: time.Duration cannot represent v.
OutOfRange(v) ==
    \/ v[1] > MaxInt64Sec[1]
    \/ v[1] = MaxInt64Sec[1] /\ v[2] > MaxInt64Sec[2]

\* v * m in float64; a value already out of range stays out of range.
FloatMul(v, m) ==
    IF OutOfRange(v) THEN v
    ELSE LET lo == v[2] * m
         IN  <<v[1] * m + (lo \div LimbBase), lo % LimbBase>>

\* float64(initial) * math.Pow(m, n)
RECURSIVE FloatPow(_, _, _)
FloatPow(initial, m, n) ==
    IF n = 0 THEN <<initial \div LimbBase, initial % LimbBase>>
    ELSE FloatMul(FloatPow(initial, m, n - 1), m)

\* The result of converting an out-of-range float64 to int64 is
\* implementation-dependent: a build for amd64 yields math.MinInt64, a build
\* for arm64 math.MaxInt64.
Architectures == {"amd64", "arm64"}

\* Only the sign of a duration and its comparison with MaxInterval are
\* observed, so math.MinInt64 is held as -1 and every duration of LimbBase
\* seconds or more as LimbBase, a value above every MaxInterval explored.
MinDuration == 0 - 1
MaxDuration == LimbBase

\* time.Duration(v), in seconds, as built for architecture a.
ToDuration(v, a) ==
    IF OutOfRange(v) THEN (IF a = "amd64" THEN MinDuration ELSE MaxDuration)
    ELSE IF v[1] > 0 THEN MaxDuration
    ELSE v[2]

\* Lines 37-40: the value of backoff when the select is reached.
Backoff(c, att, a) ==
    LET d == ToDuration(FloatPow(c.InitialInterval, c.Multiplier, att - 1), a)
    IN  IF d > c.MaxInterval THEN c.MaxInterval ELSE d

\* time.After(d) fires after d, at once when d <= 0.
Slept(d) == IF d > 0 THEN d ELSE 0

\* RetryWithBackoff is entered with policy c and a context that is done or not.
RetryStart(c, a, done) ==
    /\ cfg = c
    /\ arch = a
    /\ rpc = "loop"
    /\ attempt = 0
    /\ backoff = 0
    /\ lastErr = Nil
    /\ ret = Nil
    /\ ctxDone = done
    /\ errorLog = NoLog
    /\ calls = 0
    /\ waits = <<>>
    /\ observed = Nil
    /\ cancelAt = -1

RetryInit == \E c \in Policies, a \in Architectures, d \in BOOLEAN : RetryStart(c, a, d)

\* The state of the retry executor in the specifications of other components.
RetryParked == RetryStart(DefaultRetryConfig, "amd64", FALSE)

\* Line 34, mutated: one attempt too many.
MoreAttempts_OffByOne == attempt <= cfg.MaxAttempts

\* Line 34: the loop condition.
MoreAttempts == attempt < cfg.MaxAttempts

\* The caller cancels ctx while RetryWithBackoff is not blocked in the select.
Cancel ==
    /\ rpc \in {"loop", "call"}
    /\ ~ctxDone
    /\ ctxDone' = TRUE
    /\ UNCHANGED <<cfg, arch, rpc, attempt, backoff, lastErr, ret, errorLog,
                   calls, waits, observed, cancelAt>>

\* Line 34 with attempt = 0 (no wait), and lines 35-46 for a retry.
LoopEnter ==
    /\ rpc = "loop"
    /\ MoreAttempts
    /\ IF attempt > 0
         THEN /\ backoff' = Backoff(cfg, attempt, arch)
              /\ rpc' = "select"
         ELSE /\ rpc' = "call"
              /\ UNCHANGED backoff
    /\ UNCHANGED <<cfg, arch, attempt, lastErr, ret, ctxDone, errorLog,
                   calls, waits, observed, cancelAt>>

\* Lines 71-76, mutated: the error is logged and then swallowed.
Exhausted_Swallow ==
    /\ rpc = "loop"
    /\ ~MoreAttempts
    /\ errorLog' = [operation |-> Operation, attempts |-> cfg.MaxAttempts, err |-> lastErr]
    /\ ret' = Nil
    /\ rpc' = "done"
    /\ UNCHANGED <<cfg, arch, attempt, backoff, lastErr, ctxDone,
                   calls, waits, observed, cancelAt>>

\* Lines 71-76: the loop is over, every attempt failed (or there was none).
Exhausted ==
    /\ rpc = "loop"
    /\ ~MoreAttempts
    /\ errorLog' = [operation |-> Operation, attempts |-> cfg.MaxAttempts, err |-> lastErr]
    /\ ret' = lastErr
    /\ rpc' = "done"
    /\ UNCHANGED <<cfg, arch, attempt, backoff, lastErr, ctxDone,
                   calls, waits, observed, cancelAt>>

\* Lines 48-50: ctx was already done when the select was reached.
SelectCtxDone ==
    /\ rpc = "select"
    /\ ctxDone
    /\ ret' = CtxErr
    /\ rpc' = "done"
    /\ UNCHANGED <<cfg, arch, attempt, backoff, lastErr, ctxDone, errorLog,
                   calls, waits, observed, cancelAt>>

\* Lines 48-50, mutated: the wait is a plain sleep that ignores ctx, and the
\* cancellation is only noticed by returning the operation's error.
CancelDuringWait_Ignored ==
    /\ rpc = "select"
    /\ ~ctxDone
    /\ backoff > 0
    /\ ctxDone' = TRUE
    /\ cancelAt' = calls
    /\ ret' = lastErr
    /\ rpc' = "done"
    /\ UNCHANGED <<cfg, arch, attempt, backoff, lastErr, errorLog,
                   calls, waits, observed>>

\* Lines 48-50: ctx is cancelled while the select is blocked on the timer; the
\* close of ctx.Done() wakes the goroutine, which takes that case.
CancelDuringWait ==
    /\ rpc = "select"
    /\ ~ctxDone
    /\ backoff > 0
    /\ ctxDone' = TRUE
    /\ cancelAt' = calls
    /\ ret' = CtxErr
    /\ rpc' = "done"
    /\ UNCHANGED <<cfg, arch, attempt, backoff, lastErr, errorLog,
                   calls, waits, observed>>

\* Line 51: the timer fires.  With ctx done and a timer that is ready at once
\* (backoff <= 0) both cases can proceed and the select picks either.
SelectTimer ==
    /\ rpc = "select"
    /\ ~ctxDone \/ backoff <= 0
    /\ waits' = Append(waits, Slept(backoff))
    /\ rpc' = "call"
    /\ UNCHANGED <<cfg, arch, attempt, backoff, lastErr, ret, ctxDone, errorLog,
                   calls, observed, cancelAt>>

\* Lines 55-69: one invocation of fn and what follows it.
CallFn ==
    /\ rpc = "call"
    /\ \E r \in FnResults :
         /\ lastErr' = r
         /\ observed' = r
         /\ calls' = calls + 1
         /\ IF r = Nil
              THEN /\ ret' = Nil
                   /\ rpc' = "done"
                   /\ UNCHANGED attempt
              ELSE /\ attempt' = attempt + 1
                   /\ rpc' = "loop"
                   /\ UNCHANGED ret
    /\ UNCHANGED <<cfg, arch, backoff, ctxDone, errorLog, waits, cancelAt>>

RetryWithBackoff ==
    \/ LoopEnter
    \/ Exhausted
    \/ SelectCtxDone
    \/ CancelDuringWait
    \/ SelectTimer
    \/ CallFn

RetryNext == Cancel \/ RetryWithBackoff

-----------------------------------------------------------------------------
(***************************************************************************)
(* Health tracker: type ScraperHealth.                                     *)
(* Durations are int64 nanoseconds.  time.Now() is a logical clock that   *)
(* advances with every call on the tracker; 0 stands for the zero Time.    *)
(***************************************************************************)

Millisecond == 10^6
Second == 10^9

\* The durations a scrape may be recorded with, in nanoseconds.
Durations == {0, 7, 1500000, 25000000}

\* The err argument of RecordScrape.
ScrapeErrs == {Nil, TransportErr}

NewScraperHealth ==
    [ scraperType        |-> "rest_api",
      totalScrapes       |-> 0,
      successfulScrapes  |-> 0,
      failedScrapes      |-> 0,
      lastScrapeDuration |-> 0,
      avgScrapeDuration  |-> 0,
      maxScrapeDuration  |-> 0,
      lastError          |-> Nil,
      lastErrorTime      |-> 0,
      consecutiveErrors  |-> 0,
      lastSuccessTime    |-> 0,
      healthy            |-> TRUE ]

\* RecordScrape, lines 291-292.
RecordScrapeCounts(h, duration) ==
    [h EXCEPT !.totalScrapes = @ + 1, !.lastScrapeDuration = duration]

\* Lines 294-325, mutated: unhealthy only after more than three failures.
RecordScrapeOutcome_LateThreshold(h, duration, err, now) ==
    IF err # Nil
    THEN LET f == [h EXCEPT !.failedScrapes = @ + 1,
                            !.consecutiveErrors = @ + 1,
                            !.lastError = err,
                            !.lastErrorTime = now]
         IN  IF f.consecutiveErrors > 3 THEN [f EXCEPT !.healthy = FALSE] ELSE f
    ELSE [h EXCEPT !.successfulScrapes = @ + 1,
                   !.consecutiveErrors = 0,
                   !.lastSuccessTime = now,
                   !.healthy = TRUE,
                   !.avgScrapeDuration =
                       IF @ = 0 THEN duration ELSE (@ * 9 + duration) \div 10,
                   !.maxScrapeDuration = IF duration > @ THEN duration ELSE @]

\* Lines 294-325, mutated: a success resets the count but not the flag.
RecordScrapeOutcome_NoRecovery(h, duration, err, now) ==
    IF err # Nil
    THEN LET f == [h EXCEPT !.failedScrapes = @ + 1,
                            !.consecutiveErrors = @ + 1,
                            !.lastError = err,
                            !.lastErrorTime = now]
         IN  IF f.consecutiveErrors >= 3 THEN [f EXCEPT !.healthy = FALSE] ELSE f
    ELSE [h EXCEPT !.successfulScrapes = @ + 1,
                   !.consecutiveErrors = 0,
                   !.lastSuccessTime = now,
                   !.avgScrapeDuration =
                       IF @ = 0 THEN duration ELSE (@ * 9 + duration) \div 10,
                   !.maxScrapeDuration = IF duration > @ THEN duration ELSE @]

\* Lines 294-325, mutated: the maximum is overwritten by every success.
RecordScrapeOutcome_MaxIsLast(h, duration, err, now) ==
    IF err # Nil
    THEN LET f == [h EXCEPT !.failedScrapes = @ + 1,
                            !.consecutiveErrors = @ + 1,
                            !.lastError = err,
                            !.lastErrorTime = now]
         IN  IF f.consecutiveErrors >= 3 THEN [f EXCEPT !.healthy = FALSE] ELSE f
    ELSE [h EXCEPT !.successfulScrapes = @ + 1,
                   !.consecutiveErrors = 0,
                   !.lastSuccessTime = now,
                   !.healthy = TRUE,
                   !.avgScrapeDuration =
                       IF @ = 0 THEN duration ELSE (@ * 9 + duration) \div 10,
                   !.maxScrapeDuration = duration]

\* Lines 294-325, mutated: the moving average is rounded to nearest.
RecordScrapeOutcome_Rounds(h, duration, err, now) ==
    IF err # Nil
    THEN LET f == [h EXCEPT !.failedScrapes = @ + 1,
                            !.consecutiveErrors = @ + 1,
                            !.lastError = err,
                            !.lastErrorTime = now]
         IN  IF f.consecutiveErrors >= 3 THEN [f EXCEPT !.healthy = FALSE] ELSE f
    ELSE [h EXCEPT !.successfulScrapes = @ + 1,
                   !.consecutiveErrors = 0,
                   !.lastSuccessTime = now,
                   !.healthy = TRUE,
                   !.avgScrapeDuration =
                       IF @ = 0 THEN duration ELSE (@ * 9 + duration + 5) \div 10,
                   !.maxScrapeDuration = IF duration > @ THEN duration ELSE @]

\* RecordScrape, lines 294-325: the failure branch and the success branch.
RecordScrapeOutcome(h, duration, err, now) ==
    IF err # Nil
    THEN LET f == [h EXCEPT !.failedScrapes = @ + 1,
                            !.consecutiveErrors = @ + 1,
                            !.lastError = err,
                            !.lastErrorTime = now]
         IN  IF f.consecutiveErrors >= 3 THEN [f EXCEPT !.healthy = FALSE] ELSE f
    ELSE [h EXCEPT !.successfulScrapes = @ + 1,
                   !.consecutiveErrors = 0,
                   !.lastSuccessTime = now,
                   !.healthy = TRUE,
                   !.avgScrapeDuration =
                       IF @ = 0 THEN duration ELSE (@ * 9 + duration) \div 10,
                   !.maxScrapeDuration = IF duration > @ THEN duration ELSE @]

\* Lines 401-410, mutated: consecutiveErrors is not reset.
ResetFields_KeepsConsecutive(h) ==
    [h EXCEPT !.totalScrapes = 0,
              !.successfulScrapes = 0,
              !.failedScrapes = 0,
              !.lastScrapeDuration = 0,
              !.avgScrapeDuration = 0,
              !.maxScrapeDuration = 0,
              !.lastError = Nil,
              !.lastErrorTime = 0,
              !.healthy = TRUE]

\* Reset, lines 401-410 (lastSuccessTime is not among the fields it assigns).
ResetFields(h) ==
    [h EXCEPT !.totalScrapes = 0,
              !.successfulScrapes = 0,
              !.failedScrapes = 0,
              !.consecutiveErrors = 0,
              !.lastScrapeDuration = 0,
              !.avgScrapeDuration = 0,
              !.maxScrapeDuration = 0,
              !.lastError = Nil,
              !.lastErrorTime = 0,
              !.healthy = TRUE]

\* GetMetrics, lines 333-336: successRate, a quotient held as <<num, den>>.
SuccessRate(h) ==
    IF h.totalScrapes > 0 THEN <<h.successfulScrapes, h.totalScrapes>> ELSE <<0, 1>>

\* GetMetrics, lines 338-350: the map returned, given successRate.
GetMetricsMap(h, successRate) ==
    [ scraper_type       |-> h.scraperType,
      total_scrapes      |-> h.totalScrapes,
      successful_scrapes |-> h.successfulScrapes,
      failed_scrapes     |-> h.failedScrapes,
      success_rate       |-> successRate,
      consecutive_errors |-> h.consecutiveErrors,
      last_duration_ms   |-> h.lastScrapeDuration \div Millisecond,
      avg_duration_ms    |-> h.avgScrapeDuration \div Millisecond,
      max_duration_ms    |-> h.maxScrapeDuration \div Millisecond,
      healthy            |-> h.healthy,
      last_success       |-> h.lastSuccessTime ]

\* A point handed to the metrics builder; a float64 of seconds is <<ns, Second>>.
Point(name, value) == [metric |-> name, value |-> <<value, 1>>]
SecondsPoint(name, ns) == [metric |-> name, value |-> <<ns, Second>>]

\* EmitMetrics, lines 359-361.
EmitCounts(h) ==
    << Point("RecordScraperTotalScrapes", h.totalScrapes),
       Point("RecordScraperSuccessfulScrapes", h.successfulScrapes),
       Point("RecordScraperFailedScrapes", h.failedScrapes) >>

\* EmitMetrics, lines 364-379.
EmitStatus(h) ==
    << Point("RecordScraperHealthStatus", IF h.healthy THEN 1 ELSE 0) >>
    \o (IF h.lastScrapeDuration > 0
        THEN << SecondsPoint("RecordScraperLastDuration", h.lastScrapeDuration) >>
        ELSE << >>)
    \o (IF h.avgScrapeDuration > 0
        THEN << SecondsPoint("RecordScraperAvgDuration", h.avgScrapeDuration) >>
        ELSE << >>)
    \o << Point("RecordScraperConsecutiveErrors", h.consecutiveErrors) >>

\* What a reader returns when it reads all of h at once.
View(kind, h) ==
    IF kind = "GetMetrics"
    THEN [kind |-> kind, map |-> GetMetricsMap(h, SuccessRate(h)), points |-> << >>]
    ELSE [kind |-> kind, map |-> << >>, points |-> EmitCounts(h) \o EmitStatus(h)]

NoSnap == [kind |-> "none", map |-> << >>, points |-> << >>]

HealthStart ==
    /\ health = NewScraperHealth
    /\ clock = 1
    /\ mu = [writer |-> FALSE, readers |-> 0]
    /\ wpc = "idle"
    /\ wargs = [duration |-> 0, err |-> Nil, now |-> 0]
    /\ rdpc = "idle"
    /\ rdkind = "none"
    /\ snap = NoSnap
    /\ outcomes = << >>
    /\ durations = << >>
    /\ prior = NewScraperHealth
    /\ between = {}

Outcome(err) == IF err = Nil THEN "ok" ELSE "err"

\* RecordScrape as one step: the body runs with h.mu held for writing.
RecordScrape(duration, err) ==
    /\ clock <= MaxOps
    /\ wpc = "idle" /\ ~mu.writer /\ mu.readers = 0
    /\ prior' = health
    /\ health' = RecordScrapeOutcome(RecordScrapeCounts(health, duration),
                                     duration, err, clock)
    /\ clock' = clock + 1
    /\ outcomes' = Append(outcomes, Outcome(err))
    /\ durations' = Append(durations, duration)
    /\ UNCHANGED <<mu, wpc, wargs, rdpc, rdkind, snap, between>>

\* Reset as one step.
Reset ==
    /\ clock <= MaxOps
    /\ wpc = "idle" /\ ~mu.writer /\ mu.readers = 0
    /\ prior' = health
    /\ health' = ResetFields(health)
    /\ clock' = clock + 1
    /\ outcomes' = << >>
    /\ durations' = << >>
    /\ UNCHANGED <<mu, wpc, wargs, rdpc, rdkind, snap, between>>

HealthNext ==
    \/ \E d \in Durations, e \in ScrapeErrs : RecordScrape(d, e)
    \/ Reset

(***************************************************************************)
(* The tracker under concurrency: RecordScrape statement by statement in   *)
(* one goroutine, GetMetrics or EmitMetrics in another, both under h.mu.   *)
(***************************************************************************)

\* Lines 288-289, mutated: the writer takes the lock for reading (RLock), so
\* it does not wait for readers.
WriterMayLock_Shared == ~mu.writer

\* Lines 288-289: h.mu.Lock() returns when no reader and no writer holds h.mu.
WriterMayLock == ~mu.writer /\ mu.readers = 0

\* Lines 288-289: RecordScrape(duration, err) is called and takes the lock.
RecordScrapeLock(duration, err) ==
    /\ health.totalScrapes < MaxLockedScrapes
    /\ wpc = "idle"
    /\ WriterMayLock
    /\ mu' = [mu EXCEPT !.writer = TRUE]
    /\ wargs' = [duration |-> duration, err |-> err, now |-> clock]
    /\ wpc' = "l291"
    /\ prior' = health
    /\ UNCHANGED <<health, clock, rdpc, rdkind, snap, outcomes, durations, between>>

\* Lines 291-292.
RecordScrapeL291 ==
    /\ wpc = "l291"
    /\ health' = RecordScrapeCounts(health, wargs.duration)
    /\ wpc' = "l294"
    /\ UNCHANGED <<clock, mu, wargs, rdpc, rdkind, snap, outcomes, durations,
                   prior, between>>

\* Lines 294-325 and the deferred Unlock.
RecordScrapeL294 ==
    /\ wpc = "l294"
    /\ health' = RecordScrapeOutcome(health, wargs.duration, wargs.err, wargs.now)
    /\ mu' = [mu EXCEPT !.writer = FALSE]
    /\ wpc' = "idle"
    /\ clock' = clock + 1
    /\ outcomes' = Append(outcomes, Outcome(wargs.err))
    /\ durations' = Append(durations, wargs.duration)
    /\ between' = IF rdpc \in {"read1", "read2"} THEN between \cup {health'} ELSE between
    /\ UNCHANGED <<wargs, rdpc, rdkind, snap, prior>>

\* Lines 330 / 355: h.mu.RLock() returns when no writer holds h.mu.
ReadLock(kind) ==
    /\ rdpc = "idle"
    /\ ~mu.writer
    /\ mu' = [mu EXCEPT !.readers = @ + 1]
    /\ rdkind' = kind
    /\ rdpc' = "read1"
    /\ snap' = NoSnap
    /\ between' = {IF wpc = "idle" THEN health ELSE prior}
    /\ UNCHANGED <<health, clock, wpc, wargs, outcomes, durations, prior>>

\* GetMetrics lines 333-336, EmitMetrics lines 359-361.
Read1 ==
    /\ rdpc = "read1"
    /\ snap' = IF rdkind = "GetMetrics"
               THEN [kind |-> rdkind, map |-> SuccessRate(health), points |-> << >>]
               ELSE [kind |-> rdkind, map |-> << >>, points |-> EmitCounts(health)]
    /\ rdpc' = "read2"
    /\ UNCHANGED <<health, clock, mu, wpc, wargs, rdkind, outcomes, durations,
                   prior, between>>

\* GetMetrics lines 338-350, EmitMetrics lines 364-379, and the deferred RUnlock.
Read2 ==
    /\ rdpc = "read2"
    /\ snap' = IF rdkind = "GetMetrics"
               THEN [snap EXCEPT !.map = GetMetricsMap(health, snap.map)]
               ELSE [snap EXCEPT !.points = @ \o EmitStatus(health)]
    /\ mu' = [mu EXCEPT !.readers = @ - 1]
    /\ rdpc' = "done"
    /\ UNCHANGED <<health, clock, wpc, wargs, rdkind, outcomes, durations,
                   prior, between>>

\* The reader's caller has the result; the goroutine may read again.
ReadReturn ==
    /\ rdpc = "done"
    /\ rdpc' = "idle"
    /\ UNCHANGED <<health, clock, mu, wpc, wargs, rdkind, snap, outcomes, durations,
                   prior, between>>

HealthLockNext ==
    \/ \E d \in Durations, e \in ScrapeErrs : RecordScrapeLock(d, e)
    \/ RecordScrapeL291
    \/ RecordScrapeL294
    \/ \E k \in {"GetMetrics", "EmitMetrics"} : ReadLock(k)
    \/ Read1
    \/ Read2
    \/ ReadReturn

-----------------------------------------------------------------------------
(***************************************************************************)
(* StatsD aggregation table: type StatsDScraper.                           *)
(* A line is held as the result of splitting it at "|" (head: the first    *)
(* part, split in two at its first ":"; tail: the parts after it).  Values *)
(* are float64 in the source; the values and sample rates explored are     *)
(* such that every sum and quotient is exact.                              *)
(***************************************************************************)

\* A sample rate is the quotient num / den.
Rate(num, den) == [num |-> num, den |-> den]

\* Line 142: the SampleRate of a line without a parseable "@" part.
DefaultSampleRate == Rate(1, 1)

\* The parts of a line after its first: a type, an "@rate" part and a
\* "#k:v,k:v" part.
TypePart(type) ==
    [prefix |-> "", text |-> type, rate |-> DefaultSampleRate, pairs |-> << >>]
RatePart(num, den) ==
    [prefix |-> "@", text |-> "", rate |-> Rate(num, den), pairs |-> << >>]
TagsPart(pairs) ==
    [prefix |-> "#", text |-> "", rate |-> DefaultSampleRate, pairs |-> pairs]

\* The pieces of the first part: a text strconv.ParseFloat rejects, and the
\* decimal text of a number.
Word(text) == [text |-> text, numeric |-> FALSE, number |-> 0]
Number(value) == [text |-> "", numeric |-> TRUE, number |-> value]

\* The line name:value|type followed by the given parts.
Line(name, value, type, rest) ==
    [head |-> << Word(name), Number(value) >>, tail |-> << TypePart(type) >> \o rest]

\* The empty line, and the lines "bad_line", "requests:5", "requests|c" and
\* "requests:abc|c".
EmptyLine == [head |-> << Word("") >>, tail |-> << >>]
MalformedLines ==
    { [head |-> << Word("bad_line") >>, tail |-> << >>],
      [head |-> << Word("requests"), Number(5) >>, tail |-> << >>],
      [head |-> << Word("requests") >>, tail |-> << TypePart("c") >>],
      [head |-> << Word("requests"), Word("abc") >>, tail |-> << TypePart("c") >>] }

\* The well-formed lines a datagram may hold.
Lines ==
    { Line("requests", v, t, r) :
        v \in {3, 5}, t \in {"c", "g"}, r \in {<< >>, << RatePart(1, 2) >>} }
    \cup { Line("latency", v, t, << >>) : v \in {10, 20, 30}, t \in {"ms", "h"} }
    \cup { Line("latency", 10, "c", << >>) }
    \cup { Line("requests", 5, "c", << TagsPart(<< <<"a", "1">>, <<"b", "2">> >>) >> ) }

\* The empty map[string]string.
NoTags == [k \in {} |-> ""]

\* Lines 153-158: the pairs of a "#" part are stored one after the other.
RECURSIVE SetTags(_, _)
SetTags(tags, pairs) ==
    IF pairs = << >> THEN tags
    ELSE LET kv == Head(pairs)
         IN  SetTags([k \in DOMAIN tags \cup {kv[1]} |->
                         IF k = kv[1] THEN kv[2] ELSE tags[k]],
                     Tail(pairs))

\* Lines 146-160: the parts after the type, in order.
RECURSIVE ParseParts(_, _)
ParseParts(metric, rest) ==
    IF rest = << >> THEN metric
    ELSE LET part == Head(rest)
             next == IF part.prefix = "@"
                     THEN [metric EXCEPT !.SampleRate = part.rate]
                     ELSE IF part.prefix = "#"
                     THEN [metric EXCEPT !.Tags = SetTags(@, part.pairs)]
                     ELSE metric
         IN  ParseParts(next, Tail(rest))

\* Lines 123-136: parseStatsDLine does not return nil.
Parses(line) ==
    /\ 1 + Len(line.tail) >= 2
    /\ Len(line.head) = 2
    /\ line.head[2].numeric

\* parseStatsDLine, for a line it does not return nil for.
ParseStatsDLine(line) ==
    ParseParts([ Name       |-> line.head[1].text,
                 Value      |-> line.head[2].number,
                 Type       |-> line.tail[1].text,
                 SampleRate |-> DefaultSampleRate,
                 Tags       |-> NoTags ],
               Tail(line.tail))

\* Lines 112-116: the line is handed to aggregate.
Aggregated(line) == line # EmptyLine /\ Parses(line)

\* The orders in which a range over a map with the given keys may visit them.
RECURSIVE Orders(_)
Orders(keys) ==
    IF keys = {} THEN { << >> }
    ELSE UNION { { <<k>> \o o : o \in Orders(keys \ {k}) } : k \in keys }

\* Lines 169-172: the key, with the tags visited in the given order.
RECURSIVE KeyOf(_, _, _)
KeyOf(key, tags, order) ==
    IF order = << >> THEN key
    ELSE KeyOf(key \o "," \o Head(order) \o "=" \o tags[Head(order)], tags, Tail(order))

\* value / rate in float64.
Quo(value, rate) == (value * rate.den) \div rate.num

\* Lines 176-185: the cell made for the first line of a key.
NewCell(metric) ==
    [ Name  |-> metric.Name,
      Type  |-> metric.Type,
      Tags  |-> metric.Tags,
      Value |-> metric.Value,
      Count |-> 1,
      Sum   |-> metric.Value,
      Min   |-> metric.Value,
      Max   |-> metric.Value ]

\* Lines 189-203, mutated: the minimum is never lowered.
UpdateCell_MinKept(existing, metric) ==
    IF metric.Type = "c"
    THEN [existing EXCEPT !.Value = @ + Quo(metric.Value, metric.SampleRate)]
    ELSE IF metric.Type = "g"
    THEN [existing EXCEPT !.Value = metric.Value]
    ELSE IF metric.Type \in {"ms", "h"}
    THEN [existing EXCEPT !.Count = @ + 1,
                          !.Sum = @ + metric.Value,
                          !.Max = IF metric.Value > @ THEN metric.Value ELSE @]
    ELSE existing

\* Lines 189-203, mutated: a gauge line is added to the running value.
UpdateCell_GaugeAdds(existing, metric) ==
    IF metric.Type = "c"
    THEN [existing EXCEPT !.Value = @ + Quo(metric.Value, metric.SampleRate)]
    ELSE IF metric.Type = "g"
    THEN [existing EXCEPT !.Value = @ + metric.Value]
    ELSE IF metric.Type \in {"ms", "h"}
    THEN [existing EXCEPT !.Count = @ + 1,
                          !.Sum = @ + metric.Value,
                          !.Min = IF metric.Value < @ THEN metric.Value ELSE @,
                          !.Max = IF metric.Value > @ THEN metric.Value ELSE @]
    ELSE existing

\* Lines 189-203, mutated: the cell takes the type of the line.
UpdateCell_Retypes(existing, metric) ==
    IF metric.Type = "c"
    THEN [existing EXCEPT !.Type = metric.Type,
                          !.Value = @ + Quo(metric.Value, metric.SampleRate)]
    ELSE IF metric.Type = "g"
    THEN [existing EXCEPT !.Type = metric.Type, !.Value = metric.Value]
    ELSE IF metric.Type \in {"ms", "h"}
    THEN [existing EXCEPT !.Type = metric.Type,
                          !.Count = @ + 1,
                          !.Sum = @ + metric.Value,
                          !.Min = IF metric.Value < @ THEN metric.Value ELSE @,
                          !.Max = IF metric.Value > @ THEN metric.Value ELSE @]
    ELSE [existing EXCEPT !.Type = metric.Type]

\* Lines 189-203: the switch on the type of the line.
UpdateCell(existing, metric) ==
    IF metric.Type = "c"
    THEN [existing EXCEPT !.Value = @ + Quo(metric.Value, metric.SampleRate)]
    ELSE IF metric.Type = "g"
    THEN [existing EXCEPT !.Value = metric.Value]
    ELSE IF metric.Type \in {"ms", "h"}
    THEN [existing EXCEPT !.Count = @ + 1,
                          !.Sum = @ + metric.Value,
                          !.Min = IF metric.Value < @ THEN metric.Value ELSE @,
                          !.Max = IF metric.Value > @ THEN metric.Value ELSE @]
    ELSE existing

\* aggregate(metric) on the table, the tags ranged over in the given order.
Aggregate(table, metric, order) ==
    LET key == KeyOf(metric.Name, metric.Tags, order)
    IN  IF key \notin DOMAIN table
        THEN [k \in DOMAIN table \cup {key} |->
                 IF k = key THEN NewCell(metric) ELSE table[k]]
        ELSE [table EXCEPT ![key] = UpdateCell(@, metric)]

\* parseAndAggregate(data), mutated: the first line that fails to parse ends
\* the datagram.
RECURSIVE ParseAndAggregate_DropsRest(_, _, _)
ParseAndAggregate_DropsRest(table, data, orders) ==
    IF data = << >> THEN table
    ELSE IF Head(data) = EmptyLine
    THEN ParseAndAggregate_DropsRest(table, Tail(data), Tail(orders))
    ELSE IF ~Parses(Head(data)) THEN table
    ELSE ParseAndAggregate_DropsRest(
             Aggregate(table, ParseStatsDLine(Head(data)), Head(orders)),
             Tail(data), Tail(orders))

\* parseAndAggregate(data): every line of the datagram in turn.
RECURSIVE ParseAndAggregate(_, _, _)
ParseAndAggregate(table, data, orders) ==
    IF data = << >> THEN table
    ELSE IF ~Aggregated(Head(data))
    THEN ParseAndAggregate(table, Tail(data), Tail(orders))
    ELSE ParseAndAggregate(Aggregate(table, ParseStatsDLine(Head(data)), Head(orders)),
                           Tail(data), Tail(orders))

\* History: the lines that were aggregated into each cell, in order.
RECURSIVE FedBy(_, _, _)
FedBy(f, data, orders) ==
    IF data = << >> THEN f
    ELSE IF ~Aggregated(Head(data)) THEN FedBy(f, Tail(data), Tail(orders))
    ELSE LET m == ParseStatsDLine(Head(data))
             key == KeyOf(m.Name, m.Tags, Head(orders))
         IN  FedBy([k \in DOMAIN f \cup {key} |->
                       IF k = key
                       THEN (IF key \in DOMAIN f THEN Append(f[key], m) ELSE <<m>>)
                       ELSE f[k]],
                   Tail(data), Tail(orders))

\* The datagrams of n lines that may arrive, and for each the orders in which
\* the tags of its lines may be ranged over.
Datagrams(n) == [1..n -> Lines \cup MalformedLines \cup {EmptyLine}]

TagOrders(data) ==
    { os \in [1..Len(data) -> Orders({"a", "b"}) \cup { << >> }] :
        \A i \in 1..Len(data) :
            os[i] \in IF Aggregated(data[i])
                       THEN Orders(DOMAIN ParseStatsDLine(data[i]).Tags)
                       ELSE { << >> } }

\* A float64 quotient, held in lowest terms.
RECURSIVE GCD(_, _)
GCD(a, b) == IF b = 0 THEN a ELSE GCD(b, a % b)
Ratio(n, d) == LET g == GCD(n, d) IN [num |-> n \div g, den |-> d \div g]
Whole(n) == [num |-> n, den |-> 1]

\* metrics_builder.go: one metric with one data point, as appended to mb.sm.
DataPoint(name, unit, kind, value, tags, ts) ==
    [name |-> name, unit |-> unit, kind |-> kind, value |-> value,
     tags |-> tags, ts |-> ts]

\* RecordGenericCounter; the values explored are whole, so int64(metric.Value)
\* of line 213 is the value itself.
RecordGenericCounter(value, name, tags, ts) ==
    << DataPoint(name, "{count}", "sum", Whole(value), tags, ts) >>

RecordGenericGauge(value, name, tags, ts) ==
    << DataPoint(name, "{value}", "gauge", Whole(value), tags, ts) >>

RecordGenericTimer(avg, min, max, name, tags, ts) ==
    << DataPoint(name \o ".avg", "ms", "gauge", avg, tags, ts),
       DataPoint(name \o ".min", "ms", "gauge", Whole(min), tags, ts),
       DataPoint(name \o ".max", "ms", "gauge", Whole(max), tags, ts) >>

\* Lines 211-221: what Scrape records for one cell.
CellPoints(metric, now) ==
    IF metric.Type = "c"
    THEN RecordGenericCounter(metric.Value, metric.Name, metric.Tags, now)
    ELSE IF metric.Type = "g"
    THEN RecordGenericGauge(metric.Value, metric.Name, metric.Tags, now)
    ELSE IF metric.Type \in {"ms", "h"} /\ metric.Count > 0
    THEN RecordGenericTimer(Ratio(metric.Sum, metric.Count), metric.Min, metric.Max,
                            metric.Name, metric.Tags, now)
    ELSE << >>

\* Lines 210-222: the range over s.metrics, the keys visited in the given order.
RECURSIVE ScrapePoints(_, _, _)
ScrapePoints(table, order, now) ==
    IF order = << >> THEN << >>
    ELSE CellPoints(table[Head(order)], now) \o ScrapePoints(table, Tail(order), now)

\* No Scrape has returned yet.
NoBatch == [batch |-> << >>, at |-> 0 - 1]

\* NewStatsDScraper: the table is empty.
StatsDStart ==
    /\ metrics = << >>
    /\ fed = << >>
    /\ received = 0
    /\ buf = << >>
    /\ ranged = << >>
    /\ mb = << >>
    /\ out = NoBatch
    /\ prevOut = NoBatch
    /\ scrapes = 0
    /\ conn = "nil"
    /\ stopChan = FALSE
    /\ wg = 0
    /\ lpc = "none"
    /\ cursor = 0
    /\ spc = "idle"
    /\ calledAt = "never"

\* Start, when the address resolves and the socket binds: lines 68-83.  (A
\* Start that fails returns its error at line 70 or 75 and changes nothing.)
Start ==
    /\ lpc = "none" /\ spc = "idle" /\ conn = "nil"
    /\ conn' = "open"
    /\ wg' = wg + 1
    /\ lpc' = "select"
    /\ UNCHANGED <<metrics, fed, received, buf, ranged, mb, out, prevOut, scrapes,
                   stopChan, cursor, spc, calledAt>>

\* One iteration of listen that reads a datagram: lines 91-104.
Receive(data) ==
    /\ lpc = "select" /\ ~stopChan /\ conn = "open"
    /\ received + Len(data) <= MaxLines
    /\ \E orders \in TagOrders(data) :
         /\ metrics' = ParseAndAggregate(metrics, data, orders)
         /\ fed' = FedBy(fed, data, orders)
         /\ ranged' = orders
    /\ buf' = data
    /\ received' = received + Len(data)
    /\ cursor' = Len(data) + 1
    /\ UNCHANGED <<mb, out, prevOut, scrapes, conn, stopChan, wg, lpc, spc, calledAt>>

\* Scrape, mutated: the table is emptied once it has been read.
Scrape_Clears ==
    /\ scrapes < MaxScrapes
    /\ \E order \in Orders(DOMAIN metrics) :
         mb' = mb \o ScrapePoints(metrics, order, scrapes + 1)
    /\ out' = [batch |-> mb', at |-> received]
    /\ prevOut' = out
    /\ scrapes' = scrapes + 1
    /\ metrics' = << >>
    /\ UNCHANGED <<fed, received, buf, ranged,
                   conn, stopChan, wg, lpc, cursor, spc, calledAt>>

\* Scrape: lines 206-226.  mb.Emit() returns the builder's metrics, which
\* nothing empties.
Scrape ==
    /\ scrapes < MaxScrapes
    /\ \E order \in Orders(DOMAIN metrics) :
         mb' = mb \o ScrapePoints(metrics, order, scrapes + 1)
    /\ out' = [batch |-> mb', at |-> received]
    /\ prevOut' = out
    /\ scrapes' = scrapes + 1
    /\ UNCHANGED <<metrics, fed, received, buf, ranged,
                   conn, stopChan, wg, lpc, cursor, spc, calledAt>>

\* The lines received while the scraper is scraped, one per datagram.
ScrapedLines ==
    { Line("requests", 5, "c", << >>), Line("requests", 3, "g", << >>),
      Line("latency", 10, "ms", << >>), Line("latency", 30, "h", << >>),
      Line("requests", 5, "c", << TagsPart(<< <<"a", "1">>, <<"b", "2">> >>) >>),
      [head |-> << Word("bad_line") >>, tail |-> << >>] }

ReceiveScraped ==
    /\ received < MaxScrapedLines
    /\ \E line \in ScrapedLines : Receive(<< line >>)

StatsDScrapeNext == Start \/ ReceiveScraped \/ Scrape

\* ---- listen and Shutdown, step by step ----

\* Lines 91-95: the select of the listener's loop.
ListenSelect ==
    /\ lpc = "select"
    /\ IF stopChan
       THEN lpc' = "done" /\ wg' = wg - 1
       ELSE lpc' = "read" /\ wg' = wg
    /\ UNCHANGED <<metrics, fed, received, buf, ranged, mb, out, prevOut, scrapes,
                   conn, stopChan, cursor, spc, calledAt>>

\* Line 96: ReadFromUDP returns a datagram.
ListenRead(data) ==
    /\ lpc = "read" /\ conn = "open"
    /\ received + Len(data) <= MaxScrapedLines
    /\ buf' = data
    /\ ranged' \in TagOrders(data)
    /\ received' = received + Len(data)
    /\ cursor' = 1
    /\ lpc' = "aggregate"
    /\ UNCHANGED <<metrics, fed, mb, out, prevOut, scrapes,
                   conn, stopChan, wg, spc, calledAt>>

\* Lines 96-103: ReadFromUDP returns an error, the deadline passed or the
\* socket closed; the loop goes on.
ListenReadError ==
    /\ lpc = "read"
    /\ lpc' = "select"
    /\ UNCHANGED <<metrics, fed, received, buf, ranged, mb, out, prevOut, scrapes,
                   conn, stopChan, wg, cursor, spc, calledAt>>

\* Lines 111-119: one turn of the loop of parseAndAggregate; after the last
\* line, back to the select.
ListenAggregate ==
    /\ lpc = "aggregate"
    /\ metrics' = ParseAndAggregate(metrics, << buf[cursor] >>, << ranged[cursor] >>)
    /\ fed' = FedBy(fed, << buf[cursor] >>, << ranged[cursor] >>)
    /\ cursor' = cursor + 1
    /\ lpc' = IF cursor' > Len(buf) THEN "select" ELSE "aggregate"
    /\ UNCHANGED <<received, buf, ranged, mb, out, prevOut, scrapes,
                   conn, stopChan, wg, spc, calledAt>>

\* Line 230: close(s.stopChan), in a first call or in a call made after an
\* earlier one has returned.  Closing a channel that is closed panics.
ShutdownL230 ==
    /\ spc \in {"idle", "returned"}
    /\ IF stopChan
       THEN /\ spc' = "panic"
            /\ UNCHANGED <<stopChan, calledAt>>
       ELSE /\ stopChan' = TRUE
            /\ spc' = "l231"
            /\ calledAt' = lpc
    /\ UNCHANGED <<metrics, fed, received, buf, ranged, mb, out, prevOut, scrapes,
                   conn, wg, lpc, cursor>>

\* Lines 231-233: the socket is closed if there is one.
ShutdownL231 ==
    /\ spc = "l231"
    /\ conn' = IF conn # "nil" THEN "closed" ELSE conn
    /\ spc' = "l234"
    /\ UNCHANGED <<metrics, fed, received, buf, ranged, mb, out, prevOut, scrapes,
                   stopChan, wg, lpc, cursor, calledAt>>

\* wg.Wait() may return.
WaitReturns_NoWait == TRUE
WaitReturns == wg = 0

\* Lines 234-235: s.wg.Wait() and the return.
ShutdownL234 ==
    /\ spc = "l234"
    /\ WaitReturns
    /\ spc' = "returned"
    /\ UNCHANGED <<metrics, fed, received, buf, ranged, mb, out, prevOut, scrapes,
                   conn, stopChan, wg, lpc, cursor, calledAt>>

Shutdown == ShutdownL230 \/ ShutdownL231 \/ ShutdownL234

Listen ==
    \/ ListenSelect
    \/ \E n \in 1..MaxDatagramLines : \E data \in [1..n -> ScrapedLines] : ListenRead(data)
    \/ ListenReadError
    \/ ListenAggregate

StatsDLifeNext == Start \/ Listen \/ Shutdown

StatsDNext ==
    \/ Start
    \/ \E n \in 1..MaxDatagramLines :
         /\ received + n <= MaxLines
         /\ \E data \in Datagrams(n) : Receive(data)

-----------------------------------------------------------------------------
(***************************************************************************)
(* Log adapter: internal/scraper/log_scraper.go, run by the polling        *)
(* goroutine of logsReceiver.  A row is held as its id and whether         *)
(* rows.Scan accepts it.  The table is append-only: a new row has an id    *)
(* above every id in the table.                                            *)
(***************************************************************************)

\* The ids rows may have: 5, 7, 9, ...
LogIDs == { 2 * i + 3 : i \in 1..MaxLogRows }

\* The largest member of a set of ids, 0 for the empty set.
Highest(ids) == IF ids = {} THEN 0 ELSE CHOOSE m \in ids : \A i \in ids : i <= m

\* ORDER BY id ASC
RECURSIVE Ascending(_)
Ascending(ids) ==
    IF ids = {} THEN << >>
    ELSE LET m == Highest(ids) IN Append(Ascending(ids \ {m}), m)

\* Lines 84-85, mutated: the page holds the highest ids above the watermark.
Limit_Last(rows, n) ==
    SubSeq(rows, IF Len(rows) < n THEN 1 ELSE Len(rows) - n + 1, Len(rows))

\* LIMIT
Limit(rows, n) == SubSeq(rows, 1, IF Len(rows) < n THEN Len(rows) ELSE n)

\* Lines 80-88, mutated: WHERE id >= $1.
Query_Inclusive(table, arg) ==
    Limit(Ascending({ id \in DOMAIN table : id >= arg }), PageLimit)

\* Lines 80-88: the rows the query returns.
Query(table, arg) ==
    Limit(Ascending({ id \in DOMAIN table : id > arg }), PageLimit)

\* Lines 137-139, mutated: the watermark starts over once it has been set.
Advance_StartsOver(watermark, id) == IF watermark = 0 THEN id ELSE 0

\* Lines 137-139: track the highest log id.
Advance(watermark, id) == IF id > watermark THEN id ELSE watermark

\* Lines 95-142: the loop over the first n rows of the page, from the given
\* watermark and builder contents.
RECURSIVE Iterate(_, _, _, _, _)
Iterate(table, rows, n, watermark, recorded) ==
    IF n = 0 THEN [watermark |-> watermark, recorded |-> recorded]
    ELSE LET id == Head(rows)
         IN  IF ~table[id]
             THEN Iterate(table, Tail(rows), n - 1, watermark, recorded)
             ELSE Iterate(table, Tail(rows), n - 1,
                          Advance(watermark, id), Append(recorded, id))

\* The ids in a sequence.
Ids(rows) == { rows[i] : i \in 1..Len(rows) }

\* No cycle has run.
NoCycle ==
    [queried |-> 0 - 1, page |-> << >>, more |-> FALSE, read |-> 0, err |-> "none",
     quiet |-> FALSE]

\* History of a cycle: the argument of its query, the page returned, whether
\* the table held more rows above the argument than the page, the number of
\* rows rows.Next yielded, how Scrape ended, and (kept up to date until the
\* next cycle) whether no row has been inserted since.
Cycle(queried, page, more, read, err) ==
    [queried |-> queried, page |-> page, more |-> more, read |-> read, err |-> err,
     quiet |-> TRUE]

\* NewLogScraper, on an empty table.
LogStart ==
    /\ logTable = << >>
    /\ lastScrapedLogID = 0
    /\ lb = << >>
    /\ cycle = NoCycle
    /\ prevCycle = NoCycle
    /\ scanned = {}
    /\ handed = {}
    /\ emitted = [id \in LogIDs |-> 0]
    /\ clean = TRUE

\* The monitored system appends a row.
Insert(id, scannable) ==
    /\ id > Highest(DOMAIN logTable)
    /\ logTable' = [i \in DOMAIN logTable \cup {id} |->
                       IF i = id THEN scannable ELSE logTable[i]]
    /\ cycle' = [cycle EXCEPT !.quiet = FALSE]
    /\ UNCHANGED <<lastScrapedLogID, lb, prevCycle, scanned, handed, emitted, clean>>

\* scrapeLogs when QueryContext fails: Scrape returns at line 90 and
\* scrapeLogs at line 87.
ScrapeLogsQueryFails ==
    /\ lb' = << >>
    /\ cycle' = Cycle(lastScrapedLogID, << >>, FALSE, 0, "query")
    /\ prevCycle' = cycle
    /\ clean' = FALSE
    /\ UNCHANGED <<logTable, lastScrapedLogID, scanned, handed, emitted>>

\* scrapeLogs when the query succeeds: rows.Next yields the first n rows of
\* the page; it stops before the end of the page only with an error.
\* (Whether ConsumeLogs fails changes only what is logged.)
ScrapeLogs(n, failed) ==
    LET rows == Query(logTable, lastScrapedLogID)
        done == Iterate(logTable, rows, n, lastScrapedLogID, << >>)
    IN  /\ n <= Len(rows)
        /\ n < Len(rows) => failed
        /\ lb' = done.recorded
        /\ lastScrapedLogID' = done.watermark
        /\ scanned' = scanned \cup Ids(done.recorded)
        /\ handed' = IF failed \/ Len(done.recorded) = 0
                      THEN handed
                      ELSE handed \cup Ids(done.recorded)
        /\ emitted' = IF failed \/ Len(done.recorded) = 0
                       THEN emitted
                       ELSE [id \in LogIDs |->
                               IF id \in Ids(done.recorded) /\ emitted[id] < 2
                               THEN emitted[id] + 1
                               ELSE emitted[id]]
        /\ clean' = (clean /\ ~failed /\ \A i \in 1..n : logTable[rows[i]])
        /\ cycle' = Cycle(lastScrapedLogID, rows,
                          \E id \in DOMAIN logTable :
                              id > Highest(Ids(rows) \cup {lastScrapedLogID}),
                          n, IF failed THEN "iterate" ELSE "nil")
        /\ prevCycle' = cycle
        /\ UNCHANGED logTable

LogNext ==
    \/ \E id \in LogIDs, scannable \in BOOLEAN : Insert(id, scannable)
    \/ ScrapeLogsQueryFails
    \/ \E n \in 0..PageLimit, failed \in BOOLEAN : ScrapeLogs(n, failed)

-----------------------------------------------------------------------------
(***************************************************************************)
(* REST fan-out: RESTAPIScraper.scrapeDAGMetrics.  Times are seconds; 0 is *)
(* the zero time.Time.  Of a run and a task only the fields the function   *)
(* branches on or counts by are held; the other dimensions are copied from *)
(* the answer to the record unchanged.  A run's and a task's dag_id is the *)
(* id of the DAG it was listed for.                                        *)
(***************************************************************************)

\* time.Now() during the cycle, and 5 * time.Minute.
RestNow == 400
FiveMinutes == 5 * 60

DAGRun(id, state, start, end) ==
    [DAGRunID |-> id, State |-> state, StartDate |-> start, EndDate |-> end]

TaskInstance(taskID, runID, state, duration) ==
    [TaskID |-> taskID, DAGRunID |-> runID, State |-> state, Duration |-> duration]

\* The answer to a request: an error (after the retries), or a list.
Failure == [err |-> TRUE, items |-> << >>]
Answer(items) == [err |-> FALSE, items |-> items]

\* The DAGs the server lists.
DAGs ==
    << [DAGID |-> "d1", IsPaused |-> FALSE, Tags |-> << "etl" >>],
       [DAGID |-> "d2", IsPaused |-> TRUE, Tags |-> << >>] >>

\* The runs the server may list: with and without dag_run_id, terminal or
\* not, with start and end dates missing, reversed or in order.
RunDates == { <<0, 395>>, <<10, 0>>, <<10, 5>>, <<390, 395>> }
DAGRuns ==
    { DAGRun(id, state, d[1], d[2]) :
        id \in {"", "r1"}, state \in {"success", "failed", "running"}, d \in RunDates }

\* The answers to the listing of a DAG's runs: an error, or n runs.
RunAnswers(n) == {Failure} \cup { Answer(l) : l \in [1..n -> DAGRuns] }

\* The answers to a task listing; every listing of a cycle is answered alike.
TaskAnswers ==
    { Failure,
      Answer(<< TaskInstance("t1", "r1", "success", 7),
                TaskInstance("", "r1", "running", 3),
                TaskInstance("t2", "r1", "running", 0) >>) }

\* A metric with one data point, as appended to mb.sm; attrs are the
\* attributes put on the point, in order.
RestPoint(name, value, attrs) ==
    [name |-> name, value |-> value, attrs |-> attrs, ts |-> RestNow]

\* All concatenations of a sequence of A with one of B.
Concat(A, B) == { a \o b : a \in A, b \in B }

\* Lines 491-508: the info record of each DAG and the paused / active counts.
RECURSIVE DAGInfo(_)
DAGInfo(dags) ==
    IF dags = << >> THEN << >>
    ELSE << RestPoint("airflow.dag.info", 1,
                      << <<"dag.id", Head(dags).DAGID>>,
                         <<"is_paused", Head(dags).IsPaused>>,
                         <<"tags", Head(dags).Tags>> >>) >>
         \o DAGInfo(Tail(dags))

DAGCounts(dags) ==
    << RestPoint("airflow.dags.count",
                 Cardinality({ i \in 1..Len(dags) : dags[i].IsPaused }),
                 << <<"status", "paused">> >>),
       RestPoint("airflow.dags.count",
                 Cardinality({ i \in 1..Len(dags) : ~dags[i].IsPaused }),
                 << <<"status", "active">> >>) >>

\* Lines 530-532, mutated: a run of any state yields a duration.
HasDuration_AnyState(run) ==
    /\ run.EndDate # 0 /\ run.StartDate # 0
    /\ run.EndDate - run.StartDate > 0

\* Lines 530-532: the run yields a duration record.
HasDuration(run) ==
    /\ run.State = "success" \/ run.State = "failed"
    /\ run.EndDate # 0 /\ run.StartDate # 0
    /\ run.EndDate - run.StartDate > 0

\* Lines 520 and 552, mutated: no run is skipped.
Skipped_Never(run) == FALSE

\* Lines 520 and 552: the run is skipped.
Skipped(run) == run.DAGRunID = ""

\* Lines 518-544: the duration records of the runs, in order.
RECURSIVE RunDurations(_, _)
RunDurations(dagID, runs) ==
    IF runs = << >> THEN << >>
    ELSE LET run == Head(runs)
         IN  (IF ~Skipped(run) /\ HasDuration(run)
              THEN << RestPoint("airflow.dag.run.duration",
                                run.EndDate - run.StartDate,
                                << <<"dag.id", dagID>>, <<"dag_run.id", run.DAGRunID>>,
                                   <<"state", run.State>> >>) >>
              ELSE << >>)
             \o RunDurations(dagID, Tail(runs))

\* Lines 517-527: runsByState.
RunsByState(runs) ==
    LET counted == { i \in 1..Len(runs) : ~Skipped(runs[i]) }
    IN  [state \in { runs[i].State : i \in counted } |->
            Cardinality({ i \in counted : runs[i].State = state })]

\* tasksByState: lines 562-564.
TasksByState(tasks) ==
    [state \in { tasks[i].State : i \in 1..Len(tasks) } |->
        Cardinality({ i \in 1..Len(tasks) : tasks[i].State = state })]

\* Lines 546-548 and 583-585: one record per key of the map, the keys
\* visited in the given order.
RECURSIVE ByState(_, _, _, _)
ByState(name, dagID, counts, order) ==
    IF order = << >> THEN << >>
    ELSE << RestPoint(name, counts[Head(order)],
                      << <<"dag.id", dagID>>, <<"state", Head(order)>> >>) >>
         \o ByState(name, dagID, counts, Tail(order))

ByStateOrders(name, dagID, counts) ==
    { ByState(name, dagID, counts, order) : order \in Orders(DOMAIN counts) }

\* Line 556: the tasks of the run are listed.
Listed(run) ==
    /\ ~Skipped(run)
    /\ run.State = "running" \/ RestNow - run.StartDate < FiveMinutes

\* Lines 563-581: the duration records of the tasks, in order.
RECURSIVE TaskDurations(_, _)
TaskDurations(dagID, tasks) ==
    IF tasks = << >> THEN << >>
    ELSE LET task == Head(tasks)
         IN  (IF task.Duration > 0 /\ task.TaskID # "" /\ task.DAGRunID # ""
              THEN << RestPoint("airflow.task.instance.duration", task.Duration,
                                << <<"dag.id", dagID>>, <<"task.id", task.TaskID>>,
                                   <<"dag_run.id", task.DAGRunID>>,
                                   <<"state", task.State>> >>) >>
              ELSE << >>)
             \o TaskDurations(dagID, Tail(tasks))

\* Lines 557-585: what one task listing appends.
TaskRecords(dagID, answer) ==
    IF answer.err THEN { << >> }
    ELSE Concat({ TaskDurations(dagID, answer.items) },
                ByStateOrders("airflow.task_instances.by_state", dagID,
                              TasksByState(answer.items)))

\* Lines 551-587: the loop over the runs whose tasks are listed.
RECURSIVE TaskFanOut(_, _, _)
TaskFanOut(dagID, runs, answer) ==
    IF runs = << >> THEN { << >> }
    ELSE Concat(IF Listed(Head(runs)) THEN TaskRecords(dagID, answer) ELSE { << >> },
                TaskFanOut(dagID, Tail(runs), answer))

\* Lines 512-587: one turn of the loop over the DAGs.
DAGRecords(dagID, runs, tasks) ==
    IF runs.err THEN { << >> }
    ELSE Concat(Concat({ RunDurations(dagID, runs.items) },
                       ByStateOrders("airflow.dag_runs.by_state", dagID,
                                     RunsByState(runs.items))),
                TaskFanOut(dagID, runs.items, tasks))

\* Lines 511-588, mutated: the loop ends at the first DAG whose runs cannot
\* be fetched.
RECURSIVE RunFanOut_Aborts(_, _, _)
RunFanOut_Aborts(dags, runs, tasks) ==
    IF dags = << >> THEN { << >> }
    ELSE IF runs[Head(dags).DAGID].err THEN { << >> }
    ELSE Concat(DAGRecords(Head(dags).DAGID, runs[Head(dags).DAGID], tasks),
                RunFanOut_Aborts(Tail(dags), runs, tasks))

\* Lines 511-588: the loop over the DAGs.
RECURSIVE RunFanOut(_, _, _)
RunFanOut(dags, runs, tasks) ==
    IF dags = << >> THEN { << >> }
    ELSE Concat(DAGRecords(Head(dags).DAGID, runs[Head(dags).DAGID], tasks),
                RunFanOut(Tail(dags), runs, tasks))

\* History: the task listings requested.
RECURSIVE Listings(_, _)
Listings(dags, runs) ==
    IF dags = << >> THEN << >>
    ELSE LET dagID == Head(dags).DAGID
             items == runs[dagID].items
         IN  [ i \in 1..Len(SelectSeq(items, Listed)) |->
                 << dagID, SelectSeq(items, Listed)[i].DAGRunID >> ]
             \o Listings(Tail(dags), runs)

\* NewRESTAPIScraper: the builder is empty.
RestStart ==
    /\ restMb = << >>
    /\ restpc = "idle"
    /\ served = [dags |-> Failure, runs |-> << >>, tasks |-> Failure]
    /\ listed = << >>

\* scrapeDAGMetrics when getDags fails: lines 480-484.
ScrapeDAGMetricsNoDAGs ==
    /\ restpc = "idle"
    /\ restpc' = "done"
    /\ UNCHANGED <<restMb, served, listed>>

\* scrapeDAGMetrics when getDags succeeds.
ScrapeDAGMetrics(runs, tasks) ==
    /\ restpc = "idle"
    /\ restMb' \in Concat({ restMb \o DAGInfo(DAGs) \o DAGCounts(DAGs) },
                          RunFanOut(DAGs, runs, tasks))
    /\ served' = [dags |-> Answer(DAGs), runs |-> runs, tasks |-> tasks]
    /\ listed' = Listings(DAGs, runs)
    /\ restpc' = "done"

RestNext ==
    \/ ScrapeDAGMetricsNoDAGs
    \/ /\ restpc = "idle"
       /\ \E n1 \in 0..MaxRuns : \E n2 \in 0..(MaxRuns - n1) :
            \E r1 \in RunAnswers(n1), r2 \in RunAnswers(n2), tasks \in TaskAnswers :
             ScrapeDAGMetrics([d \in {"d1", "d2"} |-> IF d = "d1" THEN r1 ELSE r2],
                              tasks)

\* ---- aggregate and Scrape under s.mu, step by step ----

\* NewStatsDScraper: s.mu is free.
LockStart ==
    /\ smu = [writer |-> FALSE, readers |-> 0]
    /\ scpc = "idle"
    /\ seen = << >>

\* Line 166, mutated: aggregate takes the lock for reading (RLock).
AggregateMayLock_Shared == ~smu.writer

\* Line 166: s.mu.Lock() returns when no reader and no writer holds s.mu.
AggregateMayLock == ~smu.writer /\ smu.readers = 0

\* Lines 112-118: a line that is empty or does not parse is passed over;
\* aggregate is not called.
ListenSkip ==
    /\ lpc = "aggregate"
    /\ ~Aggregated(buf[cursor])
    /\ ListenAggregate
    /\ UNCHANGED lockVars

\* Lines 117 and 166: aggregate is called for the line and takes s.mu.
AggregateLock ==
    /\ lpc = "aggregate"
    /\ Aggregated(buf[cursor])
    /\ AggregateMayLock
    /\ smu' = [smu EXCEPT !.writer = TRUE]
    /\ lpc' = "locked"
    /\ UNCHANGED <<metrics, fed, received, buf, ranged, mb, out, prevOut, scrapes,
                   conn, stopChan, wg, cursor, spc, calledAt>>
    /\ UNCHANGED <<scpc, seen>>

\* Lines 169-203 and the deferred Unlock: the line's cell is made or updated,
\* aggregate returns, and the loop of parseAndAggregate goes on.
AggregateUpdate ==
    /\ lpc = "locked"
    /\ metrics' = ParseAndAggregate(metrics, << buf[cursor] >>, << ranged[cursor] >>)
    /\ fed' = FedBy(fed, << buf[cursor] >>, << ranged[cursor] >>)
    /\ cursor' = cursor + 1
    /\ lpc' = IF cursor' > Len(buf) THEN "select" ELSE "aggregate"
    /\ smu' = [smu EXCEPT !.writer = FALSE]
    /\ UNCHANGED <<received, buf, ranged, mb, out, prevOut, scrapes,
                   conn, stopChan, wg, spc, calledAt>>
    /\ UNCHANGED <<scpc, seen>>

\* Line 207: s.mu.RLock() returns when no writer holds s.mu.
ScrapeRLock ==
    /\ scpc = "idle"
    /\ scrapes < MaxScrapes
    /\ ~smu.writer
    /\ smu' = [smu EXCEPT !.readers = @ + 1]
    /\ scpc' = "ranging"
    /\ seen' = metrics
    /\ UNCHANGED statsdVars

\* Lines 210-225 and the deferred RUnlock.
ScrapeRange ==
    /\ scpc = "ranging"
    /\ Scrape
    /\ smu' = [smu EXCEPT !.readers = @ - 1]
    /\ scpc' = "idle"
    /\ UNCHANGED seen

LockedListen ==
    /\ \/ Start
       \/ ListenSelect
       \/ \E n \in 1..MaxDatagramLines :
            /\ lpc = "read" /\ received + n <= MaxScrapedLines
            /\ \E data \in [1..n -> ScrapedLines] : ListenRead(data)
       \/ ListenReadError
    /\ UNCHANGED lockVars

StatsDLockNext ==
    \/ LockedListen
    \/ ListenSkip
    \/ AggregateLock
    \/ AggregateUpdate
    \/ ScrapeRLock
    \/ ScrapeRange

-----------------------------------------------------------------------------
(***************************************************************************)
(* The logs receiver: Start opens the scraper's connection and launches    *)
(* poll; poll runs scrapeLogs on every tick it takes from its ticker;      *)
(* Shutdown cancels poll's context and closes the connection.  The ticker  *)
(* runs on its own: it fires whatever poll is doing, and a tick that finds *)
(* ticker.C full is dropped (time.NewTicker).                              *)
(***************************************************************************)

\* What LogScraper.Start may return: sql.Open or PingContext failed, or nil.
ConnectErr == [kind |-> "failed to connect to database", code |-> 0]
PingErr == [kind |-> "failed to ping database", code |-> 0]
StartResults == {Nil, ConnectErr, PingErr}

\* newLogsReceiver with NewLogScraper.
PollStart ==
    /\ rstate = "new"
    /\ startErr = Nil
    /\ db = "nil"
    /\ cancelled = FALSE
    /\ rshutdown = FALSE
    /\ pollpc = "none"
    /\ tick = 0
    /\ fired = 0
    /\ dropped = 0
    /\ running = 0
    /\ invocations = 0

\* logsReceiver.Start, mutated: poll is launched whatever the scraper's Start
\* returned.
LogsReceiverStart_PollsAnyway(err) ==
    /\ rstate = "new" /\ ~rshutdown
    /\ startErr' = err
    /\ rstate' = IF err # Nil THEN "failed" ELSE "started"
    /\ db' = IF err # Nil THEN db ELSE "open"
    /\ pollpc' = "select"
    /\ UNCHANGED <<cancelled, rshutdown, tick, fired, dropped, running, invocations>>
    /\ UNCHANGED logVars

\* logsReceiver.Start with LogScraper.Start: an error of the scraper's Start
\* is returned at line 55, before the context and the goroutine are made;
\* s.db is set only after the ping succeeded.
LogsReceiverStart(err) ==
    /\ rstate = "new" /\ ~rshutdown
    /\ startErr' = err
    /\ rstate' = IF err # Nil THEN "failed" ELSE "started"
    /\ db' = IF err # Nil THEN db ELSE "open"
    /\ pollpc' = IF err # Nil THEN pollpc ELSE "select"
    /\ UNCHANGED <<cancelled, rshutdown, tick, fired, dropped, running, invocations>>
    /\ UNCHANGED logVars

\* The ticker made at line 69 fires, until ticker.Stop runs when poll returns.
Tick ==
    /\ pollpc \in {"select", "call"}
    /\ fired < MaxTicks
    /\ fired' = fired + 1
    /\ tick' = 1
    /\ dropped' = IF tick = 1 THEN dropped + 1 ELSE dropped
    /\ UNCHANGED <<rstate, startErr, db, cancelled, rshutdown, pollpc, running, invocations>>
    /\ UNCHANGED logVars

\* Line 78, mutated: scrapeLogs runs in a goroutine of its own and poll is
\* back at its select at once.
Called_Goroutine == "select"

\* Line 78: poll calls r.scrapeLogs itself and is inside the call until it
\* returns.
Called == "call"

\* poll, lines 77-78: the select takes the tick and scrapeLogs is entered.
PollTick ==
    /\ pollpc = "select"
    /\ tick = 1
    /\ tick' = 0
    /\ pollpc' = Called
    /\ running' = running + 1
    /\ invocations' = invocations + 1
    /\ UNCHANGED <<rstate, startErr, db, cancelled, rshutdown, fired, dropped>>
    /\ UNCHANGED logVars

\* poll, lines 74-76: the select takes ctx.Done and poll returns.
PollCtxDone ==
    /\ pollpc = "select"
    /\ cancelled
    /\ pollpc' = "done"
    /\ UNCHANGED <<rstate, startErr, db, cancelled, rshutdown, tick, fired, dropped,
                   running, invocations>>
    /\ UNCHANGED logVars

\* scrapeLogs runs to its end and returns to poll.  On a connection that is
\* not open the query fails, or the iteration if it had begun.
ScrapeLogsReturns ==
    /\ running > 0
    /\ \/ ScrapeLogsQueryFails
       \/ \E n \in 0..PageLimit, failed \in BOOLEAN :
            /\ db # "open" => failed
            /\ ScrapeLogs(n, failed)
    /\ running' = running - 1
    /\ pollpc' = IF pollpc = "call" THEN "select" ELSE pollpc
    /\ UNCHANGED <<rstate, startErr, db, cancelled, rshutdown, tick, fired, dropped,
                   invocations>>

\* logsReceiver.Shutdown with LogScraper.Shutdown: cancel if Start made it,
\* then close the connection if there is one.  It does not wait for poll.
LogsReceiverShutdown ==
    /\ ~rshutdown
    /\ rshutdown' = TRUE
    /\ cancelled' = (rstate = "started")
    /\ db' = IF db = "open" THEN "closed" ELSE db
    /\ UNCHANGED <<rstate, startErr, pollpc, tick, fired, dropped, running, invocations>>
    /\ UNCHANGED logVars

\* A row is appended to the table while the receiver runs.
PollInsert ==
    /\ Cardinality(DOMAIN logTable) < MaxPollRows
    /\ \E id \in LogIDs, scannable \in BOOLEAN :
         /\ \A other \in LogIDs : other > Highest(DOMAIN logTable) => id <= other
         /\ Insert(id, scannable)
    /\ UNCHANGED pollVars

LogPollNext ==
    \/ \E err \in StartResults : LogsReceiverStart(err)
    \/ Tick
    \/ PollTick
    \/ PollCtxDone
    \/ ScrapeLogsReturns
    \/ LogsReceiverShutdown
    \/ PollInsert

-----------------------------------------------------------------------------
(***************************************************************************)
(* RESTAPIScraper.Scrape over successive cycles.  In a cycle the server    *)
(* either rejects every request or answers the listing of the DAGs (with   *)
(* no runs); the other parts of scrapeComprehensive append records on an   *)
(* answer and nothing on an error in the same way and are not held.  The   *)
(* consumer of the batch reads it and leaves it as it is.                  *)
(***************************************************************************)

\* How the server answers the requests of a cycle.
CycleAnswers == {"rejected", "answered"}

\* The points with the cycle that appended them.
Stamp(points, kind, cyc) ==
    [ i \in 1..Len(points) |-> [cycle |-> cyc, kind |-> kind, point |-> points[i]] ]

\* scrapeComprehensive: what the cycle appends to s.mb.  On an error of
\* getDags scrapeDAGMetrics logs and returns (part_001:480-484).
ScrapeComprehensive(answer) ==
    IF answer = "rejected" THEN << >> ELSE DAGInfo(DAGs) \o DAGCounts(DAGs)

\* The error the closure handed to WithScrapeTracking returns (line 59).
ClosureErr(answer) == Nil

\* MetricsBuilder.Emit: the builder's own metrics, with all that has been
\* appended to them and all that will be.
Emit(builder) == builder

\* NewRESTAPIScraper.
CycleStart ==
    /\ sHealth = NewScraperHealth
    /\ sMb = << >>
    /\ sBatch = << >>
    /\ scrapeErr = Nil
    /\ answers = << >>

\* RESTAPIScraper.Scrape: WithScrapeTracking runs the closure and records
\* its result with RecordScrape; EmitMetrics then appends the health metrics
\* to s.mb, which the batch returned by Emit shares.
RESTScrape(answer, duration) ==
    LET cyc == Len(answers) + 1
        err == ClosureErr(answer)
        h == RecordScrapeOutcome(RecordScrapeCounts(sHealth, duration),
                                 duration, err, cyc)
        recorded == sMb \o Stamp(ScrapeComprehensive(answer), "api", cyc)
    IN  /\ cyc <= MaxCycles
        /\ sHealth' = h
        /\ sMb' = recorded \o Stamp(EmitCounts(h) \o EmitStatus(h), "health", cyc)
        /\ sBatch' = Emit(sMb')
        /\ scrapeErr' = err
        /\ answers' = Append(answers, answer)

RestScrapeNext ==
    \E answer \in CycleAnswers, duration \in Durations : RESTScrape(answer, duration)

-----------------------------------------------------------------------------
(***************************************************************************)
(* The metrics receiver of createMetricsReceiver with StatsD mode enabled: *)
(* a scraperhelper controller over scraper.NewMetrics(scraperInstance.     *)
(* Scrape).  The controller's Start and Shutdown run the start and         *)
(* shutdown functions its scrapers were made with, and between them it     *)
(* calls their scrape function on every collection interval.               *)
(***************************************************************************)

\* The lifecycle functions handed to scraper.NewMetrics with the StatsD
\* adapter's Scrape at line 236: none (no scraper.WithStart, no
\* scraper.WithShutdown).
LifecycleOptions == {}

\* createMetricsReceiver has returned the controller.
ReceiverStart ==
    /\ recv = "created"
    /\ sent = << >>

\* The controller's Start: the start function of the scraper, if it has one.
ControllerStart ==
    /\ recv = "created"
    /\ recv' = "running"
    /\ IF "WithStart" \in LifecycleOptions THEN Start ELSE UNCHANGED statsdVars
    /\ UNCHANGED sent

\* A datagram of one line is sent to the endpoint while the receiver runs;
\* it is read if the socket is bound and the listener is running.
SendDatagram(line) ==
    /\ recv = "running"
    /\ Len(sent) < MaxSent
    /\ sent' = Append(sent, [line |-> line, before |-> scrapes])
    /\ IF conn = "open" /\ lpc = "select"
       THEN Receive(<< line >>)
       ELSE UNCHANGED statsdVars
    /\ UNCHANGED recv

\* The controller's collection tick: the scrape function of the scraper.
ControllerScrape ==
    /\ recv = "running"
    /\ Scrape
    /\ UNCHANGED recvVars

\* The controller's Shutdown: the shutdown function of the scraper, if it
\* has one.
ControllerShutdown ==
    /\ recv = "running"
    /\ recv' = "stopped"
    /\ IF "WithShutdown" \in LifecycleOptions THEN ShutdownL230 ELSE UNCHANGED statsdVars
    /\ UNCHANGED sent

ReceiverNext ==
    \/ ControllerStart
    \/ \E line \in ScrapedLines : SendDatagram(line)
    \/ ControllerScrape
    \/ ControllerShutdown

-----------------------------------------------------------------------------
(***************************************************************************)
(* DatabaseScraperWrapper.Scrape (db_scraper_wrapper.go:16-52), called by  *)
(* the controller one call after the other.  Of DatabaseScraper.Scrape the *)
(* scheduler query is held: it appends its six points when the query is    *)
(* answered and nothing when it fails; the other three queries behave      *)
(* alike.  DatabaseScraper.Scrape returns a nil error in either case.      *)
(***************************************************************************)

\* What DatabaseScraper.Start may return: nil, or the error RetryWithBackoff
\* ended with.
DBStartResults == {Nil, TransportErr, CtxErr}

\* DatabaseScraper.Scrape: the points of scrapeSchedulerMetrics.
DatabaseScrape(answer) ==
    IF answer = "rejected" THEN << >>
    ELSE << Point("RecordSchedulerTasksScheduled", 1),
            Point("RecordSchedulerTasksQueued", 2),
            Point("RecordSchedulerTasksRunning", 3),
            Point("RecordSchedulerTasksSuccess24h", 4),
            Point("RecordSchedulerTasksFailed24h", 0),
            Point("RecordSchedulerTasksOrphaned", 0) >>

\* NewDatabaseScraperWrapper over NewDatabaseScraper.
WrapperStart ==
    /\ wOnce = FALSE
    /\ wStarted = FALSE
    /\ wHealth = [NewScraperHealth EXCEPT !.scraperType = "database"]
    /\ wMb = << >>
    /\ wBatch = << >>
    /\ wErr = Nil
    /\ wStartErr = Nil
    /\ wScrapes = 0
    /\ startCalls = 0
    /\ scrapeCalls = 0

\* Lines 33-38, mutated: w.started is set whatever Start returned.
StartedAfter_Always(err) == TRUE

\* Lines 33-38: w.started is set when Start returned nil.
StartedAfter(err) == err = Nil

\* The wrapper's Scrape: the function of w.once on the first call, the early
\* return while w.started is false, and otherwise the underlying Scrape under
\* WithScrapeTracking followed by EmitMetrics.
WrapperScrape(startResult, answer, duration) ==
    LET first == ~wOnce
        err == IF first THEN startResult ELSE wStartErr
        started == IF first THEN StartedAfter(err) ELSE wStarted
        h0 == IF first /\ err # Nil
              THEN RecordScrapeOutcome(RecordScrapeCounts(wHealth, 0), 0, err,
                                       wScrapes + 1)
              ELSE wHealth
        h1 == RecordScrapeOutcome(RecordScrapeCounts(h0, duration), duration, Nil,
                                  wScrapes + 1)
        recorded == wMb \o Stamp(DatabaseScrape(answer), "db", wScrapes + 1)
    IN  /\ wScrapes < MaxWrapperScrapes
        /\ wScrapes' = wScrapes + 1
        /\ wOnce' = TRUE
        /\ wStartErr' = err
        /\ startCalls' = IF first THEN startCalls + 1 ELSE startCalls
        /\ wStarted' = started
        /\ wErr' = Nil
        /\ IF ~started
           THEN /\ wHealth' = h0
                /\ wBatch' = << >>
                /\ UNCHANGED <<wMb, scrapeCalls>>
           ELSE /\ scrapeCalls' = scrapeCalls + 1
                /\ wHealth' = h1
                /\ wMb' = recorded \o Stamp(EmitCounts(h1) \o EmitStatus(h1), "health",
                                            wScrapes + 1)
                /\ wBatch' = Emit(wMb')

WrapperNext ==
    \E startResult \in DBStartResults, answer \in CycleAnswers, duration \in Durations :
        WrapperScrape(startResult, answer, duration)

-----------------------------------------------------------------------------
(***************************************************************************)
(* Specifications, one per component.                                      *)
(***************************************************************************)

InitRetry == RetryInit /\ HealthStart /\ StatsDStart /\ LogStart /\ RestStart /\ PollStart /\ CycleStart /\ ReceiverStart /\ LockStart /\ WrapperStart
NextRetry == RetryNext /\ UNCHANGED <<healthVars, statsdVars, logVars, restVars, pollVars, cycleVars, recvVars, lockVars, wrapVars>>
SpecRetry == InitRetry /\ [][NextRetry]_vars

InitHealth == RetryParked /\ HealthStart /\ StatsDStart /\ LogStart /\ RestStart /\ PollStart /\ CycleStart /\ ReceiverStart /\ LockStart /\ WrapperStart
NextHealth == HealthNext /\ UNCHANGED <<retryVars, statsdVars, logVars, restVars, pollVars, cycleVars, recvVars, lockVars, wrapVars>>
SpecHealth == InitHealth /\ [][NextHealth]_vars

NextHealthLock == HealthLockNext /\ UNCHANGED <<retryVars, statsdVars, logVars, restVars, pollVars, cycleVars, recvVars, lockVars, wrapVars>>
SpecHealthLock == InitHealth /\ [][NextHealthLock]_vars

InitStatsD == RetryParked /\ HealthStart /\ StatsDStart /\ LogStart /\ RestStart /\ PollStart /\ CycleStart /\ ReceiverStart /\ LockStart /\ WrapperStart
NextStatsD == StatsDNext /\ UNCHANGED <<retryVars, healthVars, logVars, restVars, pollVars, cycleVars, recvVars, lockVars, wrapVars>>
SpecStatsD == InitStatsD /\ [][NextStatsD]_vars

NextStatsDScrape == StatsDScrapeNext /\ UNCHANGED <<retryVars, healthVars, logVars, restVars, pollVars, cycleVars, recvVars, lockVars, wrapVars>>
SpecStatsDScrape == InitStatsD /\ [][NextStatsDScrape]_vars

InitLog == RetryParked /\ HealthStart /\ StatsDStart /\ LogStart /\ RestStart /\ PollStart /\ CycleStart /\ ReceiverStart /\ LockStart /\ WrapperStart
NextLog == LogNext /\ UNCHANGED <<retryVars, healthVars, statsdVars, restVars, pollVars, cycleVars, recvVars, lockVars, wrapVars>>
SpecLog == InitLog /\ [][NextLog]_vars

NextLogPoll == LogPollNext /\ UNCHANGED <<retryVars, healthVars, statsdVars, restVars, cycleVars, recvVars, lockVars, wrapVars>>
SpecLogPoll == InitLog /\ [][NextLogPoll]_vars

InitRest == RetryParked /\ HealthStart /\ StatsDStart /\ LogStart /\ RestStart /\ PollStart /\ CycleStart /\ ReceiverStart /\ LockStart /\ WrapperStart
NextRest == RestNext /\ UNCHANGED <<retryVars, healthVars, statsdVars, logVars, pollVars, cycleVars, recvVars, lockVars, wrapVars>>
SpecRest == InitRest /\ [][NextRest]_vars

NextRestScrape == RestScrapeNext /\ UNCHANGED <<retryVars, healthVars, statsdVars, logVars, restVars, pollVars, recvVars, lockVars, wrapVars>>
SpecRestScrape == InitRest /\ [][NextRestScrape]_vars

NextWrapper == WrapperNext /\ UNCHANGED <<retryVars, healthVars, statsdVars, logVars, restVars, pollVars, cycleVars, recvVars, lockVars>>
SpecWrapper == InitRest /\ [][NextWrapper]_vars

NextStatsDLife == StatsDLifeNext /\ UNCHANGED <<retryVars, healthVars, logVars, restVars, pollVars, cycleVars, recvVars, lockVars, wrapVars>>
SpecStatsDLife == InitStatsD /\ [][NextStatsDLife]_vars

NextStatsDLock == StatsDLockNext /\ UNCHANGED <<retryVars, healthVars, logVars, restVars, pollVars, cycleVars, recvVars, wrapVars>>
SpecStatsDLock == InitStatsD /\ [][NextStatsDLock]_vars

NextReceiver == ReceiverNext /\ UNCHANGED <<retryVars, healthVars, logVars, restVars, pollVars, cycleVars, lockVars, wrapVars>>
SpecReceiver == InitStatsD /\ [][NextReceiver]_vars

-----------------------------------------------------------------------------
(***************************************************************************)
(* Properties of the retry executor.                                       *)
(***************************************************************************)

\* RetryWithBackoff has returned after the loop ran out of attempts.
RanOut == rpc = "done" /\ errorLog # NoLog

\* C1: with max_attempts = N >= 1 and a context that is never cancelled, an
\* operation that fails on every call is invoked exactly N times, and then
\* RetryWithBackoff returns: fn is never invoked more than N times, after
\* its N-th failure the loop is left, and a call that returned an error of
\* the operation has invoked it N times.
C1_FailingOperationInvokedNTimes ==
    (cfg.MaxAttempts >= 1 /\ ~ctxDone) =>
        /\ calls <= cfg.MaxAttempts
        /\ (rpc = "done" /\ ret # Nil) => calls = cfg.MaxAttempts /\ RanOut
        /\ (observed # Nil /\ calls = cfg.MaxAttempts) =>
              \/ rpc = "loop" /\ ~MoreAttempts
              \/ rpc = "done"

C1_Witness ==
    /\ rpc = "done" /\ ~ctxDone /\ ret # Nil
    /\ cfg.MaxAttempts = 5 /\ calls = 5

\* C2: an authentication failure (HTTP 401 or 403) returned by the request
\* closure under the policy doRequest uses is attempted exactly once: after
\* it RetryWithBackoff neither sleeps nor invokes the closure again, and it
\* returns that error.
C2_AuthFailureAttemptedOnce ==
    (cfg = DefaultRetryConfig /\ observed.kind = "authentication failed") =>
        /\ rpc \notin {"select", "call"}
        /\ calls = 1
        /\ rpc = "done" => ret = observed

\* min(initial * mult^n, max) for mult >= 1, computed without leaving the
\* range of the model checker's integers.
RECURSIVE CappedPow(_, _, _, _)
CappedPow(initial, mult, n, max) ==
    IF n = 0 THEN (IF initial < max THEN initial ELSE max)
    ELSE LET p == CappedPow(initial, mult, n - 1, max) * mult
         IN  IF p < max THEN p ELSE max

\* C3: no wait precedes the first attempt, and the wait before attempt k
\* (k >= 2) is min(initial_interval * multiplier^(k-2), max_interval); with
\* the default policy the waits are 1s then 2s.
C3_WaitBeforeAttemptK ==
    /\ Len(waits) <= calls
    /\ calls <= 1 => (waits = <<>> \/ rpc = "call")
    /\ \A i \in 1..Len(waits) :
          waits[i] = CappedPow(cfg.InitialInterval, cfg.Multiplier, i - 1, cfg.MaxInterval)
    /\ cfg = DefaultRetryConfig => waits \in {<<>>, <<1>>, <<1, 2>>}

\* C4: when ctx is cancelled while RetryWithBackoff waits between two
\* attempts, it returns at once with the context's error, and fn is not
\* invoked again.
C4_CancelDuringWaitReturnsCtxErr ==
    cancelAt >= 0 => rpc = "done" /\ ret = CtxErr /\ calls = cancelAt

C4_Witness == cancelAt >= 2 /\ rpc = "done" /\ lastErr # Nil

\* An error wrapped with the operation name and the number of attempts.
Annotate(e, op, n) ==
    [kind |-> e.kind, code |-> e.code, operation |-> op, attempts |-> n]

\* C5 as stated: when every attempt failed, the error returned is the last
\* attempt's error annotated with the operation name and the attempt count.
C5_ReturnsAnnotatedError ==
    (RanOut /\ calls >= 1) => ret = Annotate(observed, Operation, cfg.MaxAttempts)

\* C5 as amended: when every attempt failed, the error returned is the last
\* attempt's error itself; the operation name and the attempt count go to
\* the error log entry only.
C5_ReturnsLastError ==
    (RanOut /\ calls >= 1) =>
        /\ ret = observed
        /\ ret # Nil
        /\ errorLog = [operation |-> Operation, attempts |-> calls, err |-> observed]

C5_Witness ==
    /\ RanOut /\ calls = 3 /\ cfg = DefaultRetryConfig
    /\ ret = StatusErr(500)

-----------------------------------------------------------------------------
(***************************************************************************)
(* Properties of the health tracker.                                       *)
(***************************************************************************)

\* The number of "err" at the end of a sequence of outcomes.
RECURSIVE TrailingFailures(_)
TrailingFailures(os) ==
    IF os = << >> \/ os[Len(os)] = "ok" THEN 0
    ELSE 1 + TrailingFailures(SubSeq(os, 1, Len(os) - 1))

\* C6: a tracker starts healthy, is still healthy after one or two
\* consecutive failures, becomes unhealthy exactly when the third consecutive
\* failure is recorded and stays unhealthy on every further failure.
C6_UnhealthyAtThirdConsecutiveFailure ==
    /\ health.healthy = (TrailingFailures(outcomes) < 3)
    /\ (prior.healthy /\ ~health.healthy) => TrailingFailures(outcomes) = 3

C6_Witness ==
    /\ outcomes = <<"err", "err", "err", "err">>
    /\ ~health.healthy /\ ~prior.healthy

\* C7: in any state of the tracker, one RecordScrape without error sets
\* healthy to true and consecutive_failures to 0.
C7_SuccessRestoresHealth ==
    (outcomes # << >> /\ outcomes[Len(outcomes)] = "ok") =>
        health.healthy /\ health.consecutiveErrors = 0

C7_Witness ==
    /\ outcomes = <<"err", "err", "err", "err", "ok">>
    /\ ~prior.healthy /\ prior.consecutiveErrors = 4
    /\ health.healthy

\* C8: what GetMetrics or EmitMetrics returns while RecordScrape runs in
\* another goroutine is the view of one state the tracker had between
\* RecordScrape calls: no field comes from the middle of an update, and no
\* two fields come from different updates.
C8_SnapshotIsAtomic ==
    rdpc = "done" => \E c \in between : snap = View(rdkind, c)

C8_Witness ==
    /\ rdpc = "done" /\ rdkind = "GetMetrics"
    /\ snap.map.total_scrapes = 2 /\ snap.map.failed_scrapes = 1
    /\ wpc = "l294"
-----------------------------------------------------------------------------
(***************************************************************************)
(* Properties of the StatsD aggregation table.                             *)
(***************************************************************************)

\* The sum over the lines of value / sampleRate.
RECURSIVE ScaledSum(_)
ScaledSum(ms) ==
    IF ms = << >> THEN 0
    ELSE Quo(Head(ms).Value, Head(ms).SampleRate) + ScaledSum(Tail(ms))

\* The sum over the lines of their values.
RECURSIVE PlainSum(_)
PlainSum(ms) ==
    IF ms = << >> THEN 0 ELSE Head(ms).Value + PlainSum(Tail(ms))

Least(ms) == CHOOSE v \in {ms[i].Value : i \in 1..Len(ms)} :
                 \A i \in 1..Len(ms) : v <= ms[i].Value
Greatest(ms) == CHOOSE v \in {ms[i].Value : i \in 1..Len(ms)} :
                    \A i \in 1..Len(ms) : v >= ms[i].Value

OnlyTypes(ms, types) == \A i \in 1..Len(ms) : ms[i].Type \in types

\* C9: for every sequence of counter lines addressed to one cell, the first
\* line included, the cell's value is the sum over the lines of
\* value / sampleRate.
C9_CounterIsScaledSum ==
    \A key \in DOMAIN metrics :
        OnlyTypes(fed[key], {"c"}) => metrics[key].Value = ScaledSum(fed[key])

\* C10: for every non-empty sequence of timer lines ("ms" or "h") addressed
\* to one cell, count is the number of lines, sum the sum of their values,
\* min and max the smallest and the largest value.
C10_TimerCountSumMinMax ==
    \A key \in DOMAIN metrics :
        OnlyTypes(fed[key], {"ms", "h"}) =>
            /\ metrics[key].Count = Len(fed[key])
            /\ metrics[key].Sum = PlainSum(fed[key])
            /\ metrics[key].Min = Least(fed[key])
            /\ metrics[key].Max = Greatest(fed[key])

C10_Witness ==
    /\ "latency" \in DOMAIN metrics
    /\ Len(fed["latency"]) = 2
    /\ fed["latency"][1].Value = 10 /\ fed["latency"][1].Type = "ms"
    /\ fed["latency"][2].Value = 30 /\ fed["latency"][2].Type = "ms"
    /\ metrics["latency"].Count = 2 /\ metrics["latency"].Sum = 40
    /\ metrics["latency"].Min = 10 /\ metrics["latency"].Max = 30

\* C11: for every sequence of gauge lines addressed to one cell, the cell's
\* value is the value of the most recent line: the last write wins, nothing
\* is averaged or accumulated.
C11_GaugeLastWriteWins ==
    \A key \in DOMAIN metrics :
        OnlyTypes(fed[key], {"g"}) =>
            metrics[key].Value = fed[key][Len(fed[key])].Value

C11_Witness ==
    /\ "requests" \in DOMAIN metrics
    /\ Len(fed["requests"]) = 2
    /\ OnlyTypes(fed["requests"], {"g"})
    /\ fed["requests"][1].Value = 5 /\ fed["requests"][2].Value = 3
    /\ metrics["requests"].Value = 3

\* A valid line: name:value with a numeric value, followed by a type.
WellFormed(line) ==
    /\ Len(line.head) = 2 /\ line.head[2].numeric
    /\ Len(line.tail) >= 1

\* The elements of seq at the positions of the valid lines of data.
RECURSIVE AtValid(_, _)
AtValid(seq, data) ==
    IF data = << >> THEN << >>
    ELSE IF WellFormed(Head(data))
    THEN << Head(seq) >> \o AtValid(Tail(seq), Tail(data))
    ELSE AtValid(Tail(seq), Tail(data))

\* The table after aggregate has been applied to every given line in turn.
RECURSIVE FeedAll(_, _, _)
FeedAll(table, data, orders) ==
    IF data = << >> THEN table
    ELSE FeedAll(Aggregate(table, ParseStatsDLine(Head(data)), Head(orders)),
                 Tail(data), Tail(orders))

\* C12: parse failures are dropped per line, not per datagram: the table
\* after a datagram of valid and malformed lines is the table obtained by
\* feeding its valid lines alone in the same order, and a datagram without a
\* valid line leaves the table as it was.
C12_MalformedLinesDroppedPerLine ==
    [][ received' # received =>
          /\ metrics' = FeedAll(metrics, AtValid(buf', buf'), AtValid(ranged', buf'))
          /\ (\A i \in 1..Len(buf') : ~WellFormed(buf'[i])) => metrics' = metrics
      ]_vars

C12_Witness ==
    /\ received = 3 /\ Len(buf) = 2
    /\ buf[1] \in MalformedLines /\ buf[2] = Line("latency", 30, "ms", << >>)
    /\ "latency" \in DOMAIN metrics
    /\ metrics["latency"].Count = 2 /\ metrics["latency"].Max = 30

\* C15: the table is keyed by the name and the sorted tag set: two lines
\* with the same name and the same tag pairs update one and the same cell,
\* so the table never holds two cells for one name and tag set.
C15_OneCellPerNameAndTagSet ==
    \A k1, k2 \in DOMAIN metrics :
        metrics[k1].Name = metrics[k2].Name /\ metrics[k1].Tags = metrics[k2].Tags
            => k1 = k2

\* The values a batch reports: its points without their timestamps.
Reported(batch) ==
    { [name |-> batch[i].name, tags |-> batch[i].tags, kind |-> batch[i].kind,
       value |-> batch[i].value] : i \in 1..Len(batch) }

\* C13: Scrape does not clear or change the aggregation table, and a Scrape
\* with no datagram received since the previous Scrape reports the same
\* value for every cell as the previous one did.
C13_ScrapeKeepsTableAndValues ==
    /\ [][scrapes' # scrapes => metrics' = metrics]_vars
    /\ [](scrapes >= 2 /\ out.at = prevOut.at =>
             Reported(out.batch) = Reported(prevOut.batch))

C13_Witness ==
    /\ scrapes = 2 /\ out.at = 2 /\ prevOut.at = 2
    /\ "requests" \in DOMAIN metrics /\ "latency" \in DOMAIN metrics
    /\ metrics["requests"].Type = "c" /\ metrics["requests"].Value = 5
    /\ \E i \in 1..Len(out.batch) :
         /\ out.batch[i].name = "requests"
         /\ out.batch[i].value = Whole(5)
         /\ out.batch[i].ts = 2

\* C14: after Shutdown has returned, the listener goroutine has terminated
\* and the table is never changed again, also when a datagram was being
\* received or aggregated when Shutdown was called.
C14_NoMutationAfterShutdown ==
    /\ [](spc = "returned" => lpc \in {"none", "done"})
    /\ [][spc = "returned" => metrics' = metrics]_vars

C14_Witness ==
    /\ spc = "returned" /\ lpc = "done"
    /\ calledAt = "aggregate"
    /\ Len(buf) = 2 /\ cursor = 3
    /\ "latency" \in DOMAIN metrics /\ Len(fed["latency"]) = 2

-----------------------------------------------------------------------------
(***************************************************************************)
(* Properties of the log adapter.                                          *)
(***************************************************************************)

FullyScanned(c) ==
    /\ c.err = "nil"
    /\ c.read = Len(c.page)
    /\ \A i \in 1..Len(c.page) : logTable[c.page[i]]

\* The watermark after a fully scanned cycle.
Expected(c) == Highest(Ids(c.page) \cup {c.queried})

\* C17 as stated: after a cycle in which all returned rows are scanned the
\* watermark is the maximum of its previous value and the highest id of the
\* page, the next cycle queries above it, and returns no rows when nothing
\* was inserted meanwhile.
C17_NextCycleEmpty ==
    /\ FullyScanned(cycle) => lastScrapedLogID = Expected(cycle)
    /\ FullyScanned(prevCycle) /\ cycle # NoCycle =>
          /\ cycle.queried = Expected(prevCycle)
          /\ prevCycle.quiet => cycle.page = << >>

\* C17 amended: the same, the next cycle returning no rows when nothing was
\* inserted meanwhile and the page held every row above the previous
\* watermark.
C17_NextCycleEmptyAfterLastPage ==
    /\ FullyScanned(cycle) => lastScrapedLogID = Expected(cycle)
    /\ FullyScanned(prevCycle) /\ cycle # NoCycle =>
          /\ cycle.queried = Expected(prevCycle)
          /\ prevCycle.quiet /\ ~prevCycle.more => cycle.page = << >>

C17_Witness ==
    /\ FullyScanned(prevCycle) /\ prevCycle.page = << 5, 7, 9 >> /\ prevCycle.quiet
    /\ ~prevCycle.more
    /\ cycle.err = "nil" /\ cycle.queried = 9 /\ cycle.page = << >>
    /\ lastScrapedLogID = 9

\* C18: the adapter is at-least-once: every row it has scanned and moved
\* the watermark past has been handed to the sink, also when the cycle that
\* scanned it failed while iterating.
C18_ScannedRowsReachSink ==
    \A id \in scanned : id <= lastScrapedLogID => id \in handed

-----------------------------------------------------------------------------
(***************************************************************************)
(* Properties of the REST fan-out.                                         *)
(***************************************************************************)

\* The value of an attribute of a record; "" when it has no such attribute.
Attr(point, key) ==
    IF \E i \in 1..Len(point.attrs) : point.attrs[i][1] = key
    THEN point.attrs[CHOOSE i \in 1..Len(point.attrs) : point.attrs[i][1] = key][2]
    ELSE ""

\* The positions in the builder of the records of a name for a DAG.
RecordsOf(name, dagID) ==
    { i \in 1..Len(restMb) :
        restMb[i].name = name /\ Attr(restMb[i], "dag.id") = dagID }

\* The DAGs whose runs were listed in the cycle, and the runs listed.
Fetched ==
    IF restpc = "done" /\ ~served.dags.err
    THEN { d \in DOMAIN served.runs : ~served.runs[d].err }
    ELSE {}
RunsOf(d) == served.runs[d].items

\* The positions in the listing of d of the runs that have a run id and the
\* given state.
Identified(d, state) ==
    { i \in 1..Len(RunsOf(d)) :
        RunsOf(d)[i].DAGRunID # "" /\ RunsOf(d)[i].State = state }

\* C19: a run whose dag_run_id is empty is skipped entirely: it adds nothing
\* to the per-state run counts, yields no duration record, and no task
\* listing is requested for it.
C19_EmptyRunIDSkipped ==
    /\ \A d \in Fetched :
         /\ \A i \in RecordsOf("airflow.dag_runs.by_state", d) :
              /\ restMb[i].value = Cardinality(Identified(d, Attr(restMb[i], "state")))
              /\ restMb[i].value >= 1
         /\ \A i \in RecordsOf("airflow.dag.run.duration", d) :
              Attr(restMb[i], "dag_run.id") # ""
         /\ Cardinality(RecordsOf("airflow.dag.run.duration", d))
              <= Cardinality({ i \in 1..Len(RunsOf(d)) : RunsOf(d)[i].DAGRunID # "" })
    /\ \A i \in 1..Len(listed) : listed[i][2] # ""
    /\ Len(listed) <= Cardinality({ <<d, i>> \in Fetched \X (1..MaxRuns + 1) :
                                      i <= Len(RunsOf(d)) /\ RunsOf(d)[i].DAGRunID # "" })

C19_Witness ==
    /\ restpc = "done" /\ "d1" \in Fetched
    /\ RunsOf("d1") = << DAGRun("", "running", 390, 395), DAGRun("r1", "running", 390, 395) >>
    /\ \E i \in RecordsOf("airflow.dag_runs.by_state", "d1") :
         Attr(restMb[i], "state") = "running" /\ restMb[i].value = 1
    /\ listed = << << "d1", "r1" >> >>

\* C20: a run-duration record is emitted for a run only if its start and end
\* timestamps are both present and end > start; a run that is neither
\* "success" nor "failed" is counted by state but yields no duration record.
C20_DurationOnlyForFinishedRuns ==
    \A d \in Fetched :
        /\ \A i \in RecordsOf("airflow.dag.run.duration", d) :
             /\ Attr(restMb[i], "state") \in {"success", "failed"}
             /\ \E k \in 1..Len(RunsOf(d)) :
                  LET run == RunsOf(d)[k]
                  IN  /\ run.DAGRunID = Attr(restMb[i], "dag_run.id")
                      /\ run.State = Attr(restMb[i], "state")
                      /\ run.StartDate # 0 /\ run.EndDate # 0
                      /\ run.EndDate > run.StartDate
                      /\ restMb[i].value = run.EndDate - run.StartDate
        /\ Cardinality(RecordsOf("airflow.dag.run.duration", d))
             <= Cardinality({ k \in 1..Len(RunsOf(d)) :
                               /\ RunsOf(d)[k].State \in {"success", "failed"}
                               /\ RunsOf(d)[k].StartDate # 0 /\ RunsOf(d)[k].EndDate # 0
                               /\ RunsOf(d)[k].EndDate > RunsOf(d)[k].StartDate })
        /\ \A k \in 1..Len(RunsOf(d)) :
             LET run == RunsOf(d)[k]
             IN  run.DAGRunID # "" /\ run.State \notin {"success", "failed"} =>
                     \E i \in RecordsOf("airflow.dag_runs.by_state", d) :
                         /\ Attr(restMb[i], "state") = run.State
                         /\ restMb[i].value >= 1

C20_Witness ==
    /\ restpc = "done" /\ "d1" \in Fetched
    /\ RunsOf("d1") = << DAGRun("r1", "running", 390, 395), DAGRun("r1", "failed", 390, 395) >>
    /\ Cardinality(RecordsOf("airflow.dag.run.duration", "d1")) = 1
    /\ \E i \in RecordsOf("airflow.dag.run.duration", "d1") :
         Attr(restMb[i], "state") = "failed" /\ restMb[i].value = 5
    /\ \E i \in RecordsOf("airflow.dag_runs.by_state", "d1") :
         Attr(restMb[i], "state") = "running" /\ restMb[i].value = 1

\* The names of the records made from a DAG's runs and their tasks.
RunRecordNames ==
    { "airflow.dag.run.duration", "airflow.dag_runs.by_state",
      "airflow.task.instance.duration", "airflow.task_instances.by_state" }

\* The DAGs whose run listing failed in the cycle.
Failed ==
    IF restpc = "done" /\ ~served.dags.err
    THEN { d \in DOMAIN served.runs : served.runs[d].err }
    ELSE {}

\* C21: an error fetching the runs of one DAG does not abort the cycle: no
\* run record is emitted for that DAG, and the runs of every other listed
\* DAG are still recorded (one count per state of its identified runs, one
\* duration per run that has one).
C21_RunErrorSkipsOnlyThatDAG ==
    /\ \A d \in Failed : \A name \in RunRecordNames : RecordsOf(name, d) = {}
    /\ \A d \in Fetched :
         /\ \A k \in 1..Len(RunsOf(d)) :
              RunsOf(d)[k].DAGRunID # "" =>
                  \E i \in RecordsOf("airflow.dag_runs.by_state", d) :
                      Attr(restMb[i], "state") = RunsOf(d)[k].State
         /\ Cardinality(RecordsOf("airflow.dag.run.duration", d))
              = Cardinality({ k \in 1..Len(RunsOf(d)) :
                                /\ RunsOf(d)[k].DAGRunID # ""
                                /\ RunsOf(d)[k].State \in {"success", "failed"}
                                /\ RunsOf(d)[k].StartDate # 0 /\ RunsOf(d)[k].EndDate # 0
                                /\ RunsOf(d)[k].EndDate > RunsOf(d)[k].StartDate })

C21_Witness ==
    /\ Failed = {"d1"} /\ Fetched = {"d2"}
    /\ RunsOf("d2") = << DAGRun("r1", "success", 390, 395), DAGRun("r1", "running", 10, 0) >>
    /\ Cardinality(RecordsOf("airflow.dag.run.duration", "d2")) = 1
    /\ Cardinality(RecordsOf("airflow.dag_runs.by_state", "d2")) = 2
    /\ RecordsOf("airflow.dag_runs.by_state", "d1") = {}

\* C22: Scrape invocations of the log adapter never overlap: at most one is
\* executing, and it is the one poll is inside; every tick fired has started
\* a Scrape, is waiting in the ticker's channel, or was dropped.
C22_ScrapesNeverOverlap ==
    /\ running <= 1
    /\ running = 1 <=> pollpc = "call"
    /\ fired = invocations + tick + dropped

C22_Witness ==
    /\ running = 1
    /\ invocations = 2
    /\ dropped = 1
    /\ fired = MaxTicks

\* C23: if the log adapter's Start fails, the receiver's Start returns the
\* error, poll is never launched, no tick is fired and Scrape is never
\* invoked.
C23_FailedStartNeverPolls ==
    startErr # Nil =>
        /\ rstate = "failed"
        /\ pollpc = "none"
        /\ db = "nil"
        /\ fired = 0
        /\ invocations = 0
        /\ running = 0

C23_Witness ==
    /\ startErr = PingErr
    /\ rstate = "failed"
    /\ rshutdown
    /\ invocations = 0

\* The cycles so far ended with three rejected in a row.
LastThreeRejected ==
    /\ Len(answers) >= 3
    /\ \A k \in (Len(answers) - 2)..Len(answers) : answers[k] = "rejected"

\* The value of the health status metric the latest cycle appended.
HealthStatusOf(b) ==
    { b[i].point.value[1] :
        i \in { j \in DOMAIN b : /\ b[j].kind = "health"
                                 /\ b[j].cycle = Len(answers)
                                 /\ b[j].point.metric = "RecordScraperHealthStatus" } }

\* C24: every REST cycle's outcome is recorded in the scraper's health
\* tracker: after three consecutive failed cycles the scraper is unhealthy
\* and the health metric of the batch reports 0.
C24_FailedCyclesMarkUnhealthy ==
    LastThreeRejected =>
        /\ ~sHealth.healthy
        /\ sHealth.consecutiveErrors >= 3
        /\ HealthStatusOf(sBatch) = {0}

\* C25: the batch a Scrape returns holds only points recorded in that cycle.
C25_BatchHoldsOnlyThisCycle ==
    \A i \in DOMAIN sBatch : sBatch[i].cycle = Len(answers)

\* C26: with StatsD mode enabled the receiver starts the StatsD adapter
\* (socket bound, listener launched) before its first Scrape and shuts it
\* down when it stops, so that a well-formed line sent while the receiver
\* runs is reflected in the Scrapes after it.
C26_ReceiverRunsAdapterLifecycle ==
    /\ recv = "running" => conn = "open" /\ lpc # "none"
    /\ scrapes > 0 => conn # "nil"
    /\ recv = "stopped" => spc # "idle"
    /\ \A i \in DOMAIN sent :
         (Aggregated(sent[i].line) /\ sent[i].before < scrapes) => out.batch # << >>

\* The names of the points Scrape records for a cell, by the cell's kind.
PointNames(cell) ==
    IF cell.Type \in {"ms", "h"}
    THEN { cell.Name \o ".avg", cell.Name \o ".min", cell.Name \o ".max" }
    ELSE { cell.Name }

\* The points of a batch that belong to a cell.
PointsOf(b, cell) ==
    { i \in DOMAIN b : b[i].name \in PointNames(cell) /\ b[i].tags = cell.Tags }

\* The cell is the only one of its name and tag set.
Alone(cell) ==
    Cardinality({ k \in DOMAIN metrics : /\ metrics[k].Name = cell.Name
                                          /\ metrics[k].Tags = cell.Tags }) = 1

\* C27: every Scrape, the first and every later one, emits exactly one point
\* per counter or gauge cell in the table and exactly three per timer cell.
C27_OnePointPerCellEveryScrape ==
    (scrapes >= 1 /\ out.at = received) =>
        \A k \in DOMAIN metrics :
            Alone(metrics[k]) =>
                Cardinality(PointsOf(out.batch, metrics[k]))
                    = IF metrics[k].Type \in {"ms", "h"} THEN 3 ELSE 1

\* What does hold: the points a Scrape appends to the builder, one per
\* counter or gauge cell and three per timer cell.
AppendedPerCell ==
    (scrapes >= 1 /\ out.at = received) =>
        \A k \in DOMAIN metrics :
            Alone(metrics[k]) =>
                Cardinality({ i \in PointsOf(out.batch, metrics[k]) :
                                out.batch[i].ts = scrapes })
                    = IF metrics[k].Type \in {"ms", "h"} THEN 3 ELSE 1

\* C28: a cell's kind is fixed at first observation: it is the type of the
\* first line aggregated into the cell, and no later line, whatever type it
\* declares, changes it.
C28_KindFixedAtFirstObservation ==
    /\ [](\A k \in DOMAIN metrics : metrics[k].Type = fed[k][1].Type)
    /\ [][\A k \in DOMAIN metrics :
            k \in DOMAIN metrics' /\ metrics'[k].Type = metrics[k].Type]_vars

C28_Witness ==
    /\ "latency" \in DOMAIN metrics
    /\ Len(fed["latency"]) = 3
    /\ fed["latency"][1].Type = "c"
    /\ fed["latency"][2].Type = "ms"
    /\ fed["latency"][3].Type = "h"
    /\ metrics["latency"].Type = "c"

\* C29: the listener and Scrape never access the table in conflict: a writer
\* holds s.mu only when no reader does, the table changes only in a step of
\* the listener that holds the write lock, it does not change while Scrape
\* ranges over it, and the write lock is taken for one line and released by
\* the step that updates that line's cell.
C29_TableAccessExcludes ==
    /\ [](smu.writer => smu.readers = 0)
    /\ [](smu.writer <=> lpc = "locked")
    /\ [](scpc = "ranging" => metrics = seen /\ smu.readers = 1)
    /\ [][metrics' # metrics => smu.writer /\ smu.readers = 0 /\ ~smu'.writer]_vars
    /\ [][cursor' = cursor + 1 => ~smu'.writer]_vars
    /\ [][(~smu.writer /\ smu'.writer) =>
            lpc = "aggregate" /\ Aggregated(buf[cursor])]_vars

C29_Witness ==
    /\ scpc = "ranging"
    /\ lpc = "aggregate"
    /\ Aggregated(buf[cursor])
    /\ cursor = 2
    /\ "requests" \in DOMAIN metrics
    /\ smu.readers = 1

\* C30: each cycle reads at most one page of the lowest ids above the
\* watermark, in ascending order; and as long as every cycle is free of
\* errors, every row up to the watermark has been emitted exactly once, no
\* row above it has been emitted, and a cycle that read the last page of a
\* backlog leaves no row behind.
C30_BacklogDrainedExactlyOnce ==
    /\ cycle # NoCycle =>
         /\ Len(cycle.page) <= PageLimit
         /\ \A i, j \in 1..Len(cycle.page) : i < j => cycle.page[i] < cycle.page[j]
         /\ \A i \in 1..Len(cycle.page) : cycle.page[i] > cycle.queried
         /\ \A id \in DOMAIN logTable :
              (id > cycle.queried /\ id \notin Ids(cycle.page)) =>
                  id > Highest(Ids(cycle.page))
         /\ cycle.more => Len(cycle.page) = PageLimit
    /\ clean =>
         /\ \A id \in DOMAIN logTable :
              emitted[id] = IF id <= lastScrapedLogID THEN 1 ELSE 0
         /\ (cycle # NoCycle /\ ~cycle.more /\ cycle.quiet) =>
              lastScrapedLogID = Highest(DOMAIN logTable)

C30_Witness ==
    /\ clean
    /\ DOMAIN logTable = {5, 7, 9, 11}
    /\ prevCycle.page = << 5, 7, 9 >> /\ prevCycle.more
    /\ cycle.page = << 11 >> /\ cycle.queried = 9 /\ ~cycle.more
    /\ \A id \in DOMAIN logTable : emitted[id] = 1
    /\ lastScrapedLogID = 11

\* The rows a cycle read whose Scan failed.
FailedToScan(c) ==
    { c.page[i] : i \in { j \in 1..c.read : ~logTable[c.page[j]] } }

\* C31: a row that fails to scan is skipped and not retried: wherever it sits
\* in the page, the watermark ends the cycle at or above it, and no later
\* cycle reads it again.
C31_FailedRowNeverReadAgain ==
    /\ \A id \in FailedToScan(cycle) : lastScrapedLogID >= id
    /\ \A id \in FailedToScan(prevCycle) : id \notin Ids(cycle.page)

\* C32: after the receiver's Shutdown has returned no Scrape of the log
\* adapter is in flight and none is started.
C32_NoScrapeAfterShutdown ==
    /\ [](rshutdown => running = 0)
    /\ [][rshutdown => invocations' = invocations]_vars

\* C33: the wrapper attempts the underlying Start exactly once, in its first
\* Scrape; if that Start failed, the underlying Scrape is never invoked,
\* every Scrape of the wrapper returns an empty batch and no error, and one
\* failure is recorded in the health tracker.
C33_FailedStartGivesEmptyBatches ==
    /\ startCalls = IF wScrapes = 0 THEN 0 ELSE 1
    /\ wStartErr # Nil =>
         /\ scrapeCalls = 0
         /\ wBatch = << >>
         /\ wErr = Nil
         /\ wHealth.failedScrapes = 1
         /\ wHealth.totalScrapes = 1
         /\ wHealth.successfulScrapes = 0

C33_Witness ==
    /\ wStartErr = TransportErr
    /\ wScrapes = 3
    /\ startCalls = 1
    /\ wHealth.failedScrapes = 1

\* The duration and the outcome of the latest RecordScrape since construction
\* or the last Reset.
LastDuration == durations[Len(durations)]
LastOutcome == outcomes[Len(outcomes)]

\* C34: a successful RecordScrape(duration) sets the rolling average to
\* duration if it was 0 and otherwise to (average*9 + duration)/10, the
\* quotient truncated, and the maximum to the larger of maximum and duration;
\* a failed RecordScrape leaves the average, the maximum and the count of
\* successes as they were.
C34_AverageAndMaximumUpdate ==
    outcomes # << >> =>
        IF LastOutcome = "ok"
        THEN /\ health.avgScrapeDuration =
                    IF prior.avgScrapeDuration = 0 THEN LastDuration
                    ELSE (prior.avgScrapeDuration * 9 + LastDuration) \div 10
             /\ health.maxScrapeDuration =
                    IF LastDuration > prior.maxScrapeDuration THEN LastDuration
                    ELSE prior.maxScrapeDuration
             /\ health.successfulScrapes = prior.successfulScrapes + 1
        ELSE /\ health.avgScrapeDuration = prior.avgScrapeDuration
             /\ health.maxScrapeDuration = prior.maxScrapeDuration
             /\ health.successfulScrapes = prior.successfulScrapes

C34_Witness ==
    /\ outcomes # << >>
    /\ LastOutcome = "ok"
    /\ prior.avgScrapeDuration = 7
    /\ LastDuration = 0
    /\ health.avgScrapeDuration = 6
    /\ health.maxScrapeDuration = 7

\* C35: after Reset, and until the next RecordScrape, every field of the
\* tracker equals that of a freshly constructed tracker, and GetMetrics
\* returns what it returns on a fresh tracker.
C35_ResetEqualsFresh ==
    outcomes = << >> =>
        /\ health = NewScraperHealth
        /\ View("GetMetrics", health) = View("GetMetrics", NewScraperHealth)

\* C36: for every policy, RetryWithBackoff returns nil only if the operation
\* was invoked at least once and its last invocation returned nil, and after
\* an invocation has returned nil the operation is not invoked again.
C36_NilOnlyAfterSuccessfulCall ==
    /\ [](rpc = "done" /\ ret = Nil => calls >= 1 /\ observed = Nil)
    /\ [][calls >= 1 /\ observed = Nil => calls' = calls]_vars

\* C37: in every state of the tracker reached by RecordScrape and Reset calls,
\* healthy is false exactly when consecutiveErrors >= 3, totalScrapes is the
\* sum of successfulScrapes and failedScrapes, and consecutiveErrors is at
\* most failedScrapes.
C37_HealthFieldsConsistent ==
    /\ ~health.healthy <=> health.consecutiveErrors >= 3
    /\ health.totalScrapes = health.successfulScrapes + health.failedScrapes
    /\ health.consecutiveErrors <= health.failedScrapes

\* A failure, a Reset, and three failures after it.
C37_Witness ==
    /\ ~health.healthy
    /\ health.consecutiveErrors = 3
    /\ health.failedScrapes = 3
    /\ clock = 6

\* C38: with durations that are not negative, the rolling average never
\* exceeds the maximum, and the maximum is at least every duration recorded
\* by a successful RecordScrape since construction or the last Reset.
C38_AverageBelowMaximum ==
    /\ health.avgScrapeDuration <= health.maxScrapeDuration
    /\ \A i \in 1..Len(outcomes) :
         outcomes[i] = "ok" => health.maxScrapeDuration >= durations[i]

\* The longest scrape was followed by a shorter successful one.
C38_Witness ==
    /\ Len(outcomes) >= 2
    /\ LastOutcome = "ok"
    /\ LastDuration = 7
    /\ health.maxScrapeDuration = 25000000
    /\ health.avgScrapeDuration > 7
    /\ health.avgScrapeDuration < 25000000

\* C39: Shutdown of the StatsD scraper, called before Start, after Start, or
\* again after an earlier Shutdown has returned, never panics.
C39_ShutdownNeverPanics == spc # "panic"

\* The cell after the line has been applied by the rule of the cell's own kind.
AppliedAsOwnKind(cell, m) == UpdateCell(cell, [m EXCEPT !.Type = cell.Type])

\* C40: a line whose type differs from the kind of the existing cell it
\* addresses is applied by the rule of the cell's kind or ignored: the cell
\* is never changed by the rule of another kind.
C40_ForeignLineKeepsCellRule ==
    [][ received' # received /\ Len(buf') = 1 /\ Aggregated(buf'[1]) =>
          LET m == ParseStatsDLine(buf'[1])
              key == KeyOf(m.Name, m.Tags, ranged'[1])
          IN  key \in DOMAIN metrics /\ metrics[key].Type # m.Type =>
                  metrics'[key] \in {metrics[key], AppliedAsOwnKind(metrics[key], m)}
      ]_vars
====
